---- MODULE Spec2Model ----
(***************************************************************************)
(* Model of the display-formatting pipeline of casper-deploy-generator:    *)
(*   - the pagination engine of src/ledger.rs (LedgerValue, LedgerPageView,*)
(*     LedgerView),                                                        *)
(*   - the checksummed hexadecimal codec of src/checksummed_hex.rs.        *)
(* A string is a sequence of one-character strings.                        *)
(***************************************************************************)
EXTENDS Integers, Sequences, FiniteSets, TLC

VARIABLES
    \* ---- LedgerPageView::from_element / LedgerPageView::to_string ----
    element,        \* the Element handed to from_element: [name, value, expert]
    pc,             \* position in from_element / to_string
    pos,            \* number of characters of value_str.chars() consumed
    values,         \* the local `values: Vec<LedgerValue>`
    curr_value,     \* the local `curr_value: LedgerValue`
    page_view,      \* the LedgerPageView returned (NoView until returned)
    lines,          \* the Vec<String> returned by LedgerPageView::to_string
    \* ---- from_deploy: LedgerView::from_ledger / LedgerView::to_string ----
    ledger,         \* Ledger(Vec<Element>)
    vpc,            \* position in from_deploy
    pages,          \* LedgerView.pages
    output,         \* to_string(false)
    output_expert,  \* to_string(true)
    \* ---- checksummed_hex::encode ----
    input,          \* the bytes to encode
    digest,         \* blake2b(input)
    hpc,            \* position in encode / encode_iter
    nibbleIdx,      \* nibbles taken from bytes_to_nibbles so far
    bitIdx,         \* bits taken from hash_bits (bytes_to_bits_cycle) so far
    out,            \* the characters collected so far
    \* ---- parser::deploy::parse_phase ----
    deploy_item,    \* the ExecutableDeployItem handed to parse_phase
    txn_phase,      \* the TxnPhase handed to parse_phase
    ppc,            \* position in parse_phase
    elements,       \* the Vec<Element> parse_phase returns
    \* ---- main: the loop over the deploys ----
    deploys,        \* the deploys main goes through, in order
    id,             \* the number of iterations of the loop completed
    mpc,            \* position in main
    printed,        \* the JsonRepr records printed so far
    \* ---- test_data: auction::commons::valid ----
    valid_entrypoint, \* the entry point handed to valid
    ra,             \* the Vec<RuntimeArgs> handed to valid
    ra_idx,         \* the number of iterations of its loop completed
    valid_output,   \* its `output`
    gpc,            \* position in valid
    \* ---- test_data: construct_samples and make_deploy_sample ----
    session_samples,  \* the session samples handed to construct_samples
    payment_samples,  \* the payment samples handed to construct_samples
    session_idx,      \* the position of the outer loop
    payment_idx,      \* the position of the inner loop
    sample_session,   \* the Sample<Deploy> make_deploy_sample works on
    secondary_keys,   \* the number of secondary keys not yet signed with
    samples,          \* the samples collected so far
    cpc               \* position in construct_samples / make_deploy_sample

pageVars == <<element, pc, pos, values, curr_value, page_view, lines>>
viewVars == <<ledger, vpc, pages, output, output_expert>>
hexVars  == <<input, digest, hpc, nibbleIdx, bitIdx, out>>
phaseVars == <<deploy_item, txn_phase, ppc, elements>>
mainVars == <<deploys, id, mpc, printed>>
validVars == <<valid_entrypoint, ra, ra_idx, valid_output, gpc>>
constructVars == <<session_samples, payment_samples, session_idx, payment_idx,
                   sample_session, secondary_keys, samples, cpc>>
sampleVars == <<validVars, constructVars>>
vars     == <<pageVars, viewVars, hexVars, phaseVars, mainVars, sampleVars>>

(***************************************************************************)
(* Bounds of the model.                                                    *)
(***************************************************************************)
MaxNameLen  == 12   \* names of 0..MaxNameLen characters
MaxValueLen == 69   \* values of 0..MaxValueLen characters (3 pages)
MaxFields   == 2    \* a Ledger holds 0..MaxFields elements
MaxShortLen == 2    \* byte strings of 0..MaxShortLen bytes are enumerated in full
MaxOver     == 2    \* byte strings of up to SMALL_BYTES_COUNT + MaxOver bytes

(***************************************************************************)
(* Program constants.                                                      *)
(***************************************************************************)
LEDGER_VIEW_NAME_COUNT   == 11
LEDGER_VIEW_TOP_COUNT    == 17
LEDGER_VIEW_BOTTOM_COUNT == 17
SMALL_BYTES_COUNT        == 75

(***************************************************************************)
(* Helpers on strings.                                                     *)
(***************************************************************************)
Max(a, b) == IF a >= b THEN a ELSE b

\* the first n characters of the pattern p repeated for ever
Repeat(p, n) == [i \in 1..n |-> p[((i - 1) % Len(p)) + 1]]

Digits == <<"0", "1", "2", "3", "4", "5", "6", "7", "8", "9">>

\* `format!("{}", n)` for an unsigned integer
RECURSIVE ToDec(_)
ToDec(n) == IF n < 10 THEN <<Digits[n + 1]>>
            ELSE ToDec(n \div 10) \o <<Digits[(n % 10) + 1]>>

(***************************************************************************)
(* LedgerValue                                                             *)
(***************************************************************************)
\* LedgerValue::default()
DefaultValue == [top |-> <<>>, bottom |-> <<>>]

\* add_char with `<=` for `<` in the test of top
AddCharTopOffByOne(v, c) ==
    IF Len(v.top) <= LEDGER_VIEW_TOP_COUNT
    THEN [value |-> [v EXCEPT !.top = Append(v.top, c)], added |-> TRUE]
    ELSE IF Len(v.bottom) < LEDGER_VIEW_BOTTOM_COUNT
    THEN [value |-> [v EXCEPT !.bottom = Append(v.bottom, c)], added |-> TRUE]
    ELSE [value |-> v, added |-> FALSE]

\* LedgerValue::add_char: the value after the call and the bool it returns
AddChar(v, c) ==
    IF Len(v.top) < LEDGER_VIEW_TOP_COUNT
    THEN [value |-> [v EXCEPT !.top = Append(v.top, c)], added |-> TRUE]
    ELSE IF Len(v.bottom) < LEDGER_VIEW_BOTTOM_COUNT
    THEN [value |-> [v EXCEPT !.bottom = Append(v.bottom, c)], added |-> TRUE]
    ELSE [value |-> v, added |-> FALSE]

\* impl Display for LedgerValue
ValueToString(v) == v.top \o v.bottom

(***************************************************************************)
(* LedgerPageView::from_element                                            *)
(***************************************************************************)
NoView == [name |-> <<>>, expert |-> FALSE, values |-> <<>>]

\* the name check with `>=` for `>`
NameTooLongOffByOne(e) == Len(e.name) >= LEDGER_VIEW_NAME_COUNT

\* the name check at the head of from_element
NameTooLong(e) == Len(e.name) > LEDGER_VIEW_NAME_COUNT

\* the iteration without line 457: the character that found the page full is
\* not added to the fresh page
WalkStepDropsChar(st, c) ==
    LET r == AddChar(st.curr_value, c) IN
    IF r.added
    THEN [st EXCEPT !.curr_value = r.value]
    ELSE [values     |-> Append(st.values, st.curr_value),
          curr_value |-> DefaultValue,
          ok         |-> TRUE]

\* One iteration of `for c in value_str.chars()` on the loop state
\* st = [values, curr_value, ok]; ok is FALSE once the inner assert! failed.
WalkStep(st, c) ==
    LET r == AddChar(st.curr_value, c) IN
    IF r.added
    THEN [st EXCEPT !.curr_value = r.value]
    ELSE LET fresh == AddChar(DefaultValue, c) IN
         [values     |-> Append(st.values, st.curr_value),
          curr_value |-> fresh.value,
          ok         |-> fresh.added]

\* `values.push(curr_value.clone())` after the loop: the pages of the view
FinishWalkSkipsEmpty(vals, cur) ==
    IF cur = DefaultValue THEN vals ELSE Append(vals, cur)

FinishWalk(vals, cur) == Append(vals, cur)

\* the loop of from_element run to its end over the characters s[k..]
RECURSIVE WalkFrom(_, _, _)
WalkFrom(st, s, k) ==
    IF k > Len(s) \/ ~st.ok THEN st
    ELSE WalkFrom(WalkStep(st, s[k]), s, k + 1)

\* from_element checking the names of the regular elements only
FromElementExpertUnchecked(e) ==
    IF ~e.expert /\ NameTooLong(e) THEN [panic |-> "name", view |-> NoView]
    ELSE LET st == WalkFrom([values |-> <<>>, curr_value |-> DefaultValue,
                             ok |-> TRUE], e.value, 1) IN
         IF ~st.ok THEN [panic |-> "assert", view |-> NoView]
         ELSE [panic |-> "none",
               view  |-> [name   |-> e.name,
                          expert |-> e.expert,
                          values |-> FinishWalk(st.values, st.curr_value)]]

\* from_element as a function: the view, or the panic it ends in
FromElement(e) ==
    IF NameTooLong(e) THEN [panic |-> "name", view |-> NoView]
    ELSE LET st == WalkFrom([values |-> <<>>, curr_value |-> DefaultValue,
                             ok |-> TRUE], e.value, 1) IN
         IF ~st.ok THEN [panic |-> "assert", view |-> NoView]
         ELSE [panic |-> "none",
               view  |-> [name   |-> e.name,
                          expert |-> e.expert,
                          values |-> FinishWalk(st.values, st.curr_value)]]

(***************************************************************************)
(* LedgerPageView::to_string                                               *)
(***************************************************************************)
\* to_string with `idx` for `idx + 1` in the page suffix
PageViewToStringZeroBased(v) ==
    LET total_count == Len(v.values) IN
    IF total_count = 1
    THEN << v.name \o <<" ", ":", " ">> \o ValueToString(v.values[1]) >>
    ELSE [idx \in 1..total_count |->
            v.name \o <<" ", "[">> \o ToDec(idx - 1) \o <<"/">> \o ToDec(total_count)
                   \o <<"]", " ", ":", " ">> \o ValueToString(v.values[idx])]

PageViewToString(v) ==
    LET total_count == Len(v.values) IN
    IF total_count = 1
    THEN << v.name \o <<" ", ":", " ">> \o ValueToString(v.values[1]) >>
    ELSE [idx \in 1..total_count |->
            v.name \o <<" ", "[">> \o ToDec(idx) \o <<"/">> \o ToDec(total_count)
                   \o <<"]", " ", ":", " ">> \o ValueToString(v.values[idx])]

(***************************************************************************)
(* The fields the pagination engine is run on.                             *)
(***************************************************************************)
NamePattern == <<"A", "m", "o", "u", "n", "t", "-", "x">>
ValuePatterns ==
    { <<"0", "1">>,
      <<"2", "4", "5", "0", "0", "0", "0", "0", "0", "0", "0", " ",
        "m", "o", "t", "e", "s">>,
      <<"f">> }

Names  == { Repeat(NamePattern, n) : n \in 0..MaxNameLen }
Values == { Repeat(p, n) : p \in ValuePatterns, n \in 0..MaxValueLen }

PageInit ==
    /\ element \in [name : Names, value : Values, expert : BOOLEAN]
    /\ pc = "start"
    /\ pos = 0
    /\ values = <<>>
    /\ curr_value = DefaultValue
    /\ page_view = NoView
    /\ lines = <<>>

\* from_element, lines 442-450: the name check and the locals
FromElementStart ==
    /\ pc = "start"
    /\ IF NameTooLong(element)
       THEN /\ pc' = "panic"
            /\ UNCHANGED <<values, curr_value>>
       ELSE /\ pc' = "walk"
            /\ values' = <<>>
            /\ curr_value' = DefaultValue
    /\ UNCHANGED <<element, pos, page_view, lines>>
    /\ UNCHANGED <<viewVars, hexVars, phaseVars, mainVars, sampleVars>>

\* from_element, lines 451-459: one iteration of the loop
FromElementChar ==
    /\ pc = "walk"
    /\ pos < Len(element.value)
    /\ LET st == WalkStep([values |-> values, curr_value |-> curr_value,
                           ok |-> TRUE], element.value[pos + 1]) IN
       /\ values' = st.values
       /\ curr_value' = st.curr_value
       /\ pc' = IF st.ok THEN "walk" ELSE "assert_failed"
    /\ pos' = pos + 1
    /\ UNCHANGED <<element, page_view, lines>>
    /\ UNCHANGED <<viewVars, hexVars, phaseVars, mainVars, sampleVars>>

\* from_element, lines 460-467: push the last value and return the view
FromElementEnd ==
    /\ pc = "walk"
    /\ pos = Len(element.value)
    /\ values' = FinishWalk(values, curr_value)
    /\ page_view' = [name |-> element.name, expert |-> element.expert,
                     values |-> values']
    /\ pc' = "done"
    /\ UNCHANGED <<element, pos, curr_value, lines>>
    /\ UNCHANGED <<viewVars, hexVars, phaseVars, mainVars, sampleVars>>

\* LedgerPageView::to_string on the view from_element returned
PageToString ==
    /\ pc = "done"
    /\ lines' = PageViewToString(page_view)
    /\ pc' = "printed"
    /\ UNCHANGED <<element, pos, values, curr_value, page_view>>
    /\ UNCHANGED <<viewVars, hexVars, phaseVars, mainVars, sampleVars>>

(***************************************************************************)
(* LedgerView::from_ledger and LedgerView::to_string, as from_deploy runs  *)
(* them.                                                                   *)
(***************************************************************************)
\* the prefix counting the lines of the page view instead of the page views
PrefixLinesPerLine(idx, page) ==
    LET strs == PageViewToString(page) IN
    [i \in 1..Len(strs) |-> ToDec(idx + i - 1) \o <<" ", "|", " ">> \o strs[i]]

\* `format!("{} | {}", idx, page_str)` over the lines of one page view
PrefixLines(idx, page) ==
    LET strs == PageViewToString(page) IN
    [i \in 1..Len(strs) |-> ToDec(idx) \o <<" ", "|", " ">> \o strs[i]]

\* the filter with its branches exchanged
ShownInverted(page, expert) == IF ~page.expert THEN expert ELSE TRUE

\* the filter of to_string: `if !page.expert { true } else { expert }`
Shown(page, expert) == IF ~page.expert THEN TRUE ELSE expert

\* the body of the loop of to_string over filtered[k..], enumerate() counting
\* the filtered page views from 0
RECURSIVE ExtendFrom(_, _)
ExtendFrom(filtered, k) ==
    IF k > Len(filtered) THEN <<>>
    ELSE PrefixLines(k - 1, filtered[k]) \o ExtendFrom(filtered, k + 1)

\* LedgerView::to_string(expert)
ViewToString(pgs, expert) ==
    ExtendFrom(SelectSeq(pgs, LAMBDA page : Shown(page, expert)), 1)

\* the fields a Ledger is built from
ViewNameLens  == {4, LEDGER_VIEW_NAME_COUNT, LEDGER_VIEW_NAME_COUNT + 1}
ViewValueLens == {0, LEDGER_VIEW_TOP_COUNT + 1,
                  LEDGER_VIEW_TOP_COUNT + LEDGER_VIEW_BOTTOM_COUNT + 1,
                  MaxValueLen}
ViewElements ==
    { [name   |-> Repeat(NamePattern, n),
       value  |-> Repeat(<<"0", "1", "2">>, m),
       expert |-> x] : n \in ViewNameLens, m \in ViewValueLens, x \in BOOLEAN }

Ledgers == UNION { [1..n -> ViewElements] : n \in 0..MaxFields }

ViewInit ==
    /\ ledger \in Ledgers
    /\ vpc = "start"
    /\ pages = <<>>
    /\ output = <<>>
    /\ output_expert = <<>>

\* LedgerView::from_ledger: from_element mapped over the elements in order;
\* the first element whose from_element panics aborts from_deploy
FromLedger ==
    /\ vpc = "start"
    /\ LET made == [i \in 1..Len(ledger) |-> FromElement(ledger[i])] IN
       IF \E i \in 1..Len(ledger) : made[i].panic # "none"
       THEN /\ vpc' = "panic"
            /\ UNCHANGED pages
       ELSE /\ vpc' = "view"
            /\ pages' = [i \in 1..Len(ledger) |-> made[i].view]
    /\ UNCHANGED <<ledger, output, output_expert>>
    /\ UNCHANGED <<pageVars, hexVars, phaseVars, mainVars, sampleVars>>

\* from_deploy: `let output = ledger_view.to_string(false);`
ToStringRegular ==
    /\ vpc = "view"
    /\ output' = ViewToString(pages, FALSE)
    /\ vpc' = "regular"
    /\ UNCHANGED <<ledger, pages, output_expert>>
    /\ UNCHANGED <<pageVars, hexVars, phaseVars, mainVars, sampleVars>>

\* from_deploy: `let output_expert = ledger_view.to_string(true);` and the
\* JsonRepr returned
ToStringExpert ==
    /\ vpc = "regular"
    /\ output_expert' = ViewToString(pages, TRUE)
    /\ vpc' = "done"
    /\ UNCHANGED <<ledger, pages, output>>
    /\ UNCHANGED <<pageVars, hexVars, phaseVars, mainVars, sampleVars>>

(***************************************************************************)
(* checksummed_hex                                                         *)
(***************************************************************************)
HEX_CHARS == <<"0", "1", "2", "3", "4", "5", "6", "7", "8", "9",
               "a", "b", "c", "d", "e", "f", "A", "B", "C", "D", "E", "F">>

\* blake2b gives a digest of 32 bytes
DigestLength == 32

\* the nibbles of a byte taken low nibble first
NibbleLowFirst(bytes, k) ==
    LET byte == bytes[(k \div 2) + 1] IN
    IF k % 2 = 0 THEN byte % 16 ELSE (byte \div 16) % 16

\* bytes_to_nibbles: nibble k (from 0) of the bytes, `(byte >> offset) & 0x0f`
\* with offset 4 then 0
Nibble(bytes, k) ==
    LET byte == bytes[(k \div 2) + 1] IN
    IF k % 2 = 0 THEN (byte \div 16) % 16 ELSE byte % 16

\* bytes_to_bits_cycle: bit k (from 0) of the cyclic stream,
\* `((byte >> offset) & 0x01) == 0x01` with offset 0..8; `unwrap_or(true)`
\* when the stream is empty
CycleBit(bytes, k) ==
    IF Len(bytes) = 0 THEN TRUE
    ELSE LET byte   == bytes[((k \div 8) % Len(bytes)) + 1]
             offset == k % 8
         IN  (byte \div (2 ^ offset)) % 2 = 1

\* a bit taken for every nibble
BitsTakenPerNibble(nibble) == 1

\* `nibble >= 10 && hash_bits.next()...`: && evaluates hash_bits.next() only
\* when nibble >= 10; the number of bits the closure takes for a nibble
BitsTaken(nibble) == IF nibble >= 10 THEN 1 ELSE 0

\* `nibble += 7` for `nibble += 6`
HexIndexOffByOne(nibble, bit) ==
    IF nibble >= 10 /\ bit THEN nibble + 7 ELSE nibble

\* the uppercase letter chosen when the bit is 0
HexIndexInverted(nibble, bit) ==
    IF nibble >= 10 /\ ~bit THEN nibble + 6 ELSE nibble

\* the index into HEX_CHARS the closure of encode_iter computes, bit being
\* the bit taken from hash_bits when nibble >= 10
HexIndex(nibble, bit) ==
    IF nibble >= 10 /\ bit THEN nibble + 6 ELSE nibble

\* the size test with `>=` for `>`
IsLargeOffByOne(bytes) == Len(bytes) >= SMALL_BYTES_COUNT

\* the test at the head of encode
IsLarge(bytes) == Len(bytes) > SMALL_BYTES_COUNT

\* base16::encode_lower
EncodeLower(bytes) ==
    [k \in 1..(2 * Len(bytes)) |->
        SubSeq(HEX_CHARS, 1, 16)[Nibble(bytes, k - 1) + 1]]

\* encode_iter as a function: the characters of the nibbles from k on, b bits
\* of the digest dg having been taken
EncodeIterFrom(bytes, dg, k, b) ==
    [j \in 1..(2 * Len(bytes) - k) |->
        LET nibble == Nibble(bytes, k + j - 1)
            taken  == Cardinality({ i \in k..(k + j - 2) :
                                      BitsTaken(Nibble(bytes, i)) = 1 })
            index  == HexIndex(nibble, CycleBit(dg, b + taken))
        IN  HEX_CHARS[index + 1]]

\* encode as a function of the bytes and of their digest
Encode(bytes, dg) ==
    IF IsLarge(bytes) THEN EncodeLower(bytes)
    ELSE EncodeIterFrom(bytes, dg, 0, 0)

ByteSet     == {5, 10, 175, 240}
DigestBytes == {0, 165, 255}

Inputs ==
    (UNION { [1..n -> ByteSet] : n \in 0..MaxShortLen })
    \cup { Repeat(p, n) : p \in [1..2 -> ByteSet],
                          n \in (SMALL_BYTES_COUNT - 1)..(SMALL_BYTES_COUNT + MaxOver) }

Digests == { Repeat(p, DigestLength) : p \in [1..2 -> DigestBytes] }

HexInit ==
    /\ input \in Inputs
    /\ digest \in Digests
    /\ hpc = "start"
    /\ nibbleIdx = 0
    /\ bitIdx = 0
    /\ out = <<>>

\* encode: the size test, base16::encode_lower for a large input, and the
\* construction of the iterator of encode_iter otherwise
EncodeStart ==
    /\ hpc = "start"
    /\ IF IsLarge(input)
       THEN /\ out' = EncodeLower(input)
            /\ hpc' = "done"
       ELSE /\ out' = <<>>
            /\ hpc' = "iter"
    /\ UNCHANGED <<input, digest, nibbleIdx, bitIdx>>
    /\ UNCHANGED <<pageVars, viewVars, phaseVars, mainVars, sampleVars>>

\* encode_iter: the closure applied to the next nibble; indexing HEX_CHARS
\* out of range panics
EncodeNibble ==
    /\ hpc = "iter"
    /\ nibbleIdx < 2 * Len(input)
    /\ LET nibble == Nibble(input, nibbleIdx)
           index  == HexIndex(nibble, CycleBit(digest, bitIdx))
       IN  /\ bitIdx' = bitIdx + BitsTaken(nibble)
           /\ IF index < Len(HEX_CHARS)
              THEN /\ out' = Append(out, HEX_CHARS[index + 1])
                   /\ hpc' = "iter"
              ELSE /\ out' = out
                   /\ hpc' = "panic"
    /\ nibbleIdx' = nibbleIdx + 1
    /\ UNCHANGED <<input, digest>>
    /\ UNCHANGED <<pageVars, viewVars, phaseVars, mainVars, sampleVars>>

\* encode: `.collect()` once the nibbles are exhausted
EncodeCollect ==
    /\ hpc = "iter"
    /\ nibbleIdx = 2 * Len(input)
    /\ hpc' = "done"
    /\ UNCHANGED <<input, digest, nibbleIdx, bitIdx, out>>
    /\ UNCHANGED <<pageVars, viewVars, phaseVars, mainVars, sampleVars>>

(***************************************************************************)
(* Strings of the classifier (src/parser).                                 *)
(***************************************************************************)
LowerAlpha == <<"a", "b", "c", "d", "e", "f", "g", "h", "i", "j", "k", "l", "m", "n", "o", "p", "q", "r", "s", "t", "u", "v", "w", "x", "y", "z">>
UpperAlpha == <<"A", "B", "C", "D", "E", "F", "G", "H", "I", "J", "K", "L", "M", "N", "O", "P", "Q", "R", "S", "T", "U", "V", "W", "X", "Y", "Z">>

\* the characters of the model in the order of their code points, which is
\* the order of `String` keys in a BTreeMap
CodePointOrder == <<" ", "#", "-">> \o Digits \o UpperAlpha \o <<"_">> \o LowerAlpha

CharOrd(c) == CHOOSE i \in 1..Len(CodePointOrder) : CodePointOrder[i] = c

\* char::to_uppercase and str::to_lowercase on the characters of the model
CharUpper(c) ==
    IF \E i \in 1..26 : LowerAlpha[i] = c
    THEN UpperAlpha[CHOOSE i \in 1..26 : LowerAlpha[i] = c] ELSE c

CharLower(c) ==
    IF \E i \in 1..26 : UpperAlpha[i] = c
    THEN LowerAlpha[CHOOSE i \in 1..26 : UpperAlpha[i] = c] ELSE c

ToLowercase(str) == [i \in 1..Len(str) |-> CharLower(str[i])]

\* capitalize_first
CapitalizeFirst(str) ==
    IF str = <<>> THEN <<>> ELSE <<CharUpper(str[1])>> \o Tail(str)

\* `<` on String
RECURSIVE StrLess(_, _)
StrLess(a, b) ==
    IF b = <<>> THEN FALSE
    ELSE IF a = <<>> THEN TRUE
    ELSE IF a[1] = b[1] THEN StrLess(Tail(a), Tail(b))
    ELSE CharOrd(a[1]) < CharOrd(b[1])

\* the keys of a BTreeMap<String, _> in iteration order
SortedKeys(keys) ==
    [i \in 1..Cardinality(keys) |->
        CHOOSE x \in keys : Cardinality({ y \in keys : StrLess(y, x) }) = i - 1]

\* U512::from_dec_str on a string of decimal digits
RECURSIVE FromDecStr(_)
FromDecStr(ds) ==
    IF ds = <<>> THEN 0
    ELSE 10 * FromDecStr(SubSeq(ds, 1, Len(ds) - 1))
           + (CHOOSE d \in 0..9 : Digits[d + 1] = ds[Len(ds)])

\* Separable::separate_with_spaces on the decimal digits of a number
RECURSIVE SeparateWithSpaces(_)
SeparateWithSpaces(ds) ==
    IF Len(ds) <= 3 THEN ds
    ELSE SeparateWithSpaces(SubSeq(ds, 1, Len(ds) - 3))
           \o <<" ">> \o SubSeq(ds, Len(ds) - 2, Len(ds))

FormatAmountFromLeft(motes) ==
    LET ds == ToDec(motes) IN
    [i \in 1..(Len(ds) + ((Len(ds) - 1) \div 3)) |->
        IF i % 4 = 0 THEN " " ELSE ds[i - (i \div 4)]]
      \o <<" ", "m", "o", "t", "e", "s">>

\* format_amount
FormatAmount(motes) ==
    SeparateWithSpaces(ToDec(motes)) \o <<" ", "m", "o", "t", "e", "s">>

\* the argument names and entry points the classifier knows
ARG_AMOUNT             == <<"a", "m", "o", "u", "n", "t">>
ARG_ID                 == <<"i", "d">>
ARG_SOURCE             == <<"s", "o", "u", "r", "c", "e">>
ARG_TARGET             == <<"t", "a", "r", "g", "e", "t">>
ARG_TO                 == <<"t", "o">>
AUCTION_ARG_KEY        == <<"a", "u", "c", "t", "i", "o", "n">>
DELEGATE_ENTRYPOINT    == <<"d", "e", "l", "e", "g", "a", "t", "e">>
UNDELEGATE_ENTRYPOINT  == <<"u", "n", "d", "e", "l", "e", "g", "a", "t", "e">>
REDELEGATE_ENTRYPOINT  == <<"r", "e", "d", "e", "l", "e", "g", "a", "t", "e">>
DELEGATOR_ARG_KEY      == <<"d", "e", "l", "e", "g", "a", "t", "o", "r">>
VALIDATOR_ARG_KEY      == <<"v", "a", "l", "i", "d", "a", "t", "o", "r">>
NEW_VALIDATOR_ARG_KEY  == <<"n", "e", "w", "_", "v", "a", "l", "i", "d", "a", "t", "o", "r">>

\* Element::regular and Element::expert
Regular(name, value) ==
    [name |-> CapitalizeFirst(name), value |-> value, expert |-> FALSE]
ExpertElement(name, value) ==
    [name |-> CapitalizeFirst(name), value |-> value, expert |-> TRUE]

\* Element::as_expert
AsExpert(e) == [e EXCEPT !.expert = TRUE]

\* A CLValue is [cl_type, str, num]: num is the number of a numeric value and
\* str the text cl_value_to_string gives for a value of any other type.
ClString(str)  == [cl_type |-> "String", str |-> str, num |-> 0]
ClU512(num)    == [cl_type |-> "U512", str |-> <<>>, num |-> num]
ClU64(num)     == [cl_type |-> "U64", str |-> <<>>, num |-> num]
ClPublicKey(str) == [cl_type |-> "PublicKey", str |-> str, num |-> 0]

\* cl_value_to_string
ClValueToString(v) ==
    IF v.cl_type \in {"U512", "U64"} THEN ToDec(v.num) ELSE v.str

\* RuntimeArgs::get(key).is_some()
HasArg(args, key) == key \in DOMAIN args

\* BTreeMap::remove of the keys, on a copy of the arguments
Without(args, keys) == [k \in (DOMAIN args) \ keys |-> args[k]]

identity(el) == el

(***************************************************************************)
(* parser/runtime_args.rs                                                  *)
(***************************************************************************)
\* the two functions handed to parse_optional_arg as `f`, by name: identity
\* and the closure of parse_motes (U512::from_dec_str, then format_amount)
MotesText(amount_str) == FormatAmount(FromDecStr(amount_str))
Call(f, str) == IF f = "MotesText" THEN MotesText(str) ELSE identity(str)

\* parse_optional_arg: the Option<Element> as a sequence of 0 or 1 elements
ParseOptionalArg(args, key, label, expert, f) ==
    IF HasArg(args, key)
    THEN LET value == Call(f, ClValueToString(args[key])) IN
         IF expert THEN <<ExpertElement(label, value)>>
         ELSE <<Regular(label, value)>>
    ELSE <<>>

RuntimeArgsFromOneBased(args, keys, k) ==
    [j \in 1..(2 * (Len(keys) - k + 1)) |->
        LET at == k + ((j - 1) \div 2) IN
        IF j % 2 = 1
        THEN ExpertElement(<<"a", "r", "g", "-">> \o ToDec(at) \o <<"-", "n", "a", "m", "e">>,
                           keys[at])
        ELSE ExpertElement(<<"a", "r", "g", "-">> \o ToDec(at) \o <<"-", "v", "a", "l">>,
                           ClValueToString(args[keys[at]]))]

\* parse_runtime_args over the keys[k..] of the BTreeMap, idx = k - 1
RuntimeArgsFrom(args, keys, k) ==
    [j \in 1..(2 * (Len(keys) - k + 1)) |->
        LET at == k + ((j - 1) \div 2) IN
        IF j % 2 = 1
        THEN ExpertElement(<<"a", "r", "g", "-">> \o ToDec(at - 1) \o <<"-", "n", "a", "m", "e">>,
                           keys[at])
        ELSE ExpertElement(<<"a", "r", "g", "-">> \o ToDec(at - 1) \o <<"-", "v", "a", "l">>,
                           ClValueToString(args[keys[at]]))]

\* parse_runtime_args
ParseRuntimeArgs(args) == RuntimeArgsFrom(args, SortedKeys(DOMAIN args), 1)

(***************************************************************************)
(* parser/deploy.rs                                                        *)
(***************************************************************************)
\* impl Display for TxnPhase
PhaseLabel(phase) ==
    IF phase = "Payment" THEN <<"P", "a", "y", "m", "e", "n", "t">> ELSE <<"E", "x", "e", "c", "u", "t", "i", "o", "n">>

\* is_system_payment
IsSystemPayment(phase, module_bytes) ==
    phase = "Payment" /\ module_bytes = <<>>

\* parse_motes
ParseMotes(args, ledger_label) ==
    ParseOptionalArg(args, ARG_AMOUNT, ledger_label, FALSE, "MotesText")

\* parse_fee, parse_amount
ParseFee(args)    == ParseMotes(args, <<"f", "e", "e">>)
ParseAmount(args) == ParseMotes(args, <<"a", "m", "o", "u", "n", "t">>)

\* parse_transfer_amount (called by parse_transfer_args)
ParseTransferAmount(args) == ParseMotes(args, <<"a", "m", "o", "u", "n", "t">>)

\* remove_amount_arg, remove_transfer_args
RemoveAmountArg(args) == Without(args, {ARG_AMOUNT})
RemoveTransferArgsKeepsId(args) ==
    Without(args, {ARG_TO, ARG_SOURCE, ARG_TARGET, ARG_AMOUNT})

RemoveTransferArgs(args) ==
    Without(args, {ARG_TO, ARG_SOURCE, ARG_TARGET, ARG_AMOUNT, ARG_ID})

ParseVersionNoLatest(version) ==
    ExpertElement(<<"v", "e", "r", "s", "i", "o", "n">>, ToDec(version.v))

\* parse_version: version is [some, v]
ParseVersion(version) ==
    ExpertElement(<<"v", "e", "r", "s", "i", "o", "n">>,
                  IF version.some THEN ToDec(version.v) ELSE <<"l", "a", "t", "e", "s", "t">>)

\* entrypoint
EntrypointElement(entry_point) == ExpertElement(<<"e", "n", "t", "r", "y", "-", "p", "o", "i", "n", "t">>, entry_point)

\* `format!("{:?}", Digest::hash(module_bytes))`, `format!("{}", hash)`: the
\* text of a hash, given by the hashing library
HashText(bytes) == <<"c", "0", "F", "F", "e", "e">>

\* deploy_type
DeployType(phase, item) ==
    LET phase_label == PhaseLabel(phase) IN
    CASE item.kind = "ModuleBytes" ->
           IF IsSystemPayment(phase, item.module_bytes) THEN <<>>
           ELSE << Regular(phase_label, <<"c", "o", "n", "t", "r", "a", "c", "t">>),
                   Regular(<<"C", "n", "t", "r", "c", "t", " ", "h", "a", "s", "h">>, HashText(item.module_bytes)) >>
      [] item.kind = "StoredContractByHash" ->
           << Regular(phase_label, <<"b", "y", "-", "h", "a", "s", "h">>),
              Regular(<<"a", "d", "d", "r", "e", "s", "s">>, item.hash) >>
      [] item.kind = "StoredContractByName" ->
           << Regular(phase_label, <<"b", "y", "-", "n", "a", "m", "e">>),
              Regular(<<"n", "a", "m", "e">>, item.name) >>
      [] item.kind = "StoredVersionedContractByHash" ->
           << Regular(phase_label, <<"b", "y", "-", "h", "a", "s", "h", "-", "v", "e", "r", "s", "i", "o", "n", "e", "d">>),
              Regular(<<"a", "d", "d", "r", "e", "s", "s">>, item.hash),
              ParseVersion(item.version) >>
      [] item.kind = "StoredVersionedContractByName" ->
           << Regular(phase_label, <<"b", "y", "-", "n", "a", "m", "e", "-", "v", "e", "r", "s", "i", "o", "n", "e", "d">>),
              Regular(<<"n", "a", "m", "e">>, item.name),
              ParseVersion(item.version) >>
      [] item.kind = "Transfer" -> <<>>

ParseTransferArgsSourceLast(args) ==
    ParseOptionalArg(args, ARG_TO, <<"r", "e", "c", "i", "p", "i", "e", "n", "t">>, FALSE, "identity")
      \o ParseOptionalArg(args, ARG_TARGET, <<"t", "a", "r", "g", "e", "t">>, FALSE, "identity")
      \o ParseTransferAmount(args)
      \o ParseOptionalArg(args, ARG_ID, <<"I", "D">>, TRUE, "identity")
      \o ParseOptionalArg(args, ARG_SOURCE, <<"f", "r", "o", "m">>, TRUE, "identity")

\* parse_transfer_args
ParseTransferArgs(args) ==
    ParseOptionalArg(args, ARG_TO, <<"r", "e", "c", "i", "p", "i", "e", "n", "t">>, FALSE, "identity")
      \o ParseOptionalArg(args, ARG_SOURCE, <<"f", "r", "o", "m">>, TRUE, "identity")
      \o ParseOptionalArg(args, ARG_TARGET, <<"t", "a", "r", "g", "e", "t">>, FALSE, "identity")
      \o ParseTransferAmount(args)
      \o ParseOptionalArg(args, ARG_ID, <<"I", "D">>, TRUE, "identity")

\* parse_phase, the last else branch (lines 51-101)
ParsePhaseGeneric(item, phase) ==
    DeployType(phase, item) \o
    CASE item.kind = "ModuleBytes" ->
           (IF IsSystemPayment(phase, item.module_bytes)
            THEN ParseFee(item.args) ELSE ParseAmount(item.args))
             \o ParseRuntimeArgs(RemoveAmountArg(item.args))
      [] item.kind = "Transfer" ->
           ParseTransferArgs(item.args)
             \o ParseRuntimeArgs(RemoveTransferArgs(item.args))
      [] OTHER ->
           <<EntrypointElement(item.entry_point)>>
             \o ParseAmount(item.args)
             \o ParseRuntimeArgs(RemoveAmountArg(item.args))

(***************************************************************************)
(* parser/auction.rs                                                       *)
(***************************************************************************)
IsEntrypointEndsWith(item, expected) ==
    IF item.kind \in {"ModuleBytes", "Transfer"} THEN FALSE
    ELSE /\ Len(item.entry_point) >= Len(expected)
         /\ SubSeq(item.entry_point, Len(item.entry_point) - Len(expected) + 1,
                   Len(item.entry_point)) = expected

\* is_entrypoint
IsEntrypoint(item, expected) ==
    IF item.kind \in {"ModuleBytes", "Transfer"} THEN FALSE
    ELSE item.entry_point = expected

GetAuctionArgAnyKind(item) ==
    IF HasArg(item.args, AUCTION_ARG_KEY)
    THEN IF item.args[AUCTION_ARG_KEY].cl_type = "String"
         THEN [panic |-> FALSE, some |-> TRUE,
               value |-> item.args[AUCTION_ARG_KEY].str]
         ELSE [panic |-> TRUE, some |-> FALSE, value |-> <<>>]
    ELSE [panic |-> FALSE, some |-> FALSE, value |-> <<>>]

\* get_auction_arg: [panic, some, value]; `expect("argument should be
\* string")` panics on an `auction` argument of another type
GetAuctionArg(item) ==
    IF item.kind = "ModuleBytes" /\ HasArg(item.args, AUCTION_ARG_KEY)
    THEN IF item.args[AUCTION_ARG_KEY].cl_type = "String"
         THEN [panic |-> FALSE, some |-> TRUE,
               value |-> item.args[AUCTION_ARG_KEY].str]
         ELSE [panic |-> TRUE, some |-> FALSE, value |-> <<>>]
    ELSE [panic |-> FALSE, some |-> FALSE, value |-> <<>>]

\* has_delegate_auction_arg, has_undelegate_auction_arg,
\* has_redelegate_auction_arg
HasAuctionArg(item, entrypoint) ==
    LET a == GetAuctionArg(item) IN
    a.some /\ ToLowercase(a.value) = entrypoint

HasDelegateArgsNoAmount(item) ==
    /\ HasArg(item.args, DELEGATOR_ARG_KEY)
    /\ HasArg(item.args, VALIDATOR_ARG_KEY)

\* has_delegate_args, has_undelegate_arg
HasDelegateArgs(item) ==
    /\ HasArg(item.args, DELEGATOR_ARG_KEY)
    /\ HasArg(item.args, VALIDATOR_ARG_KEY)
    /\ HasArg(item.args, ARG_AMOUNT)

HasUndelegateArg(item) ==
    /\ HasArg(item.args, DELEGATOR_ARG_KEY)
    /\ HasArg(item.args, VALIDATOR_ARG_KEY)
    /\ HasArg(item.args, ARG_AMOUNT)

\* has_redelegate_arg
HasRedelegateArg(item) ==
    /\ HasArg(item.args, DELEGATOR_ARG_KEY)
    /\ HasArg(item.args, VALIDATOR_ARG_KEY)
    /\ HasArg(item.args, NEW_VALIDATOR_ARG_KEY)
    /\ HasArg(item.args, ARG_AMOUNT)

\* is_delegate, is_undelegate, is_redelegate (when get_auction_arg returns)
IsDelegate(item) ==
    (IsEntrypoint(item, DELEGATE_ENTRYPOINT) \/ HasAuctionArg(item, DELEGATE_ENTRYPOINT))
      /\ HasDelegateArgs(item)

IsUndelegate(item) ==
    (IsEntrypoint(item, UNDELEGATE_ENTRYPOINT) \/ HasAuctionArg(item, UNDELEGATE_ENTRYPOINT))
      /\ HasUndelegateArg(item)

IsRedelegate(item) ==
    (IsEntrypoint(item, REDELEGATE_ENTRYPOINT) \/ HasAuctionArg(item, REDELEGATE_ENTRYPOINT))
      /\ HasRedelegateArg(item)

\* parse_delegator, parse_validator, parse_old_validator, parse_new_validator
ParseDelegator(args) ==
    ParseOptionalArg(args, DELEGATOR_ARG_KEY, <<"d", "e", "l", "e", "g", "a", "t", "o", "r">>, FALSE, "identity")
ParseValidator(args) ==
    ParseOptionalArg(args, VALIDATOR_ARG_KEY, <<"v", "a", "l", "i", "d", "a", "t", "o", "r">>, FALSE, "identity")
ParseOldValidator(args) ==
    ParseOptionalArg(args, VALIDATOR_ARG_KEY, <<"o", "l", "d">>, FALSE, "identity")
ParseNewValidator(args) ==
    ParseOptionalArg(args, NEW_VALIDATOR_ARG_KEY, <<"n", "e", "w">>, FALSE, "identity")

\* the arg_parser closures of parse_delegation, parse_undelegation and
\* parse_redelegation
DelegationArgs(args) ==
    ParseDelegator(args) \o ParseValidator(args) \o ParseAmount(args)
UndelegationArgs(args) ==
    ParseDelegator(args) \o ParseValidator(args) \o ParseAmount(args)
RedelegationArgsNewFirst(args) ==
    ParseDelegator(args) \o ParseNewValidator(args)
      \o ParseOldValidator(args) \o ParseAmount(args)

RedelegationArgs(args) ==
    ParseDelegator(args) \o ParseOldValidator(args)
      \o ParseNewValidator(args) \o ParseAmount(args)

\* parse_auction_item: [panic, elements]; parsed is args_parser(args)
ParseAuctionItemShowsArgs(item, parsed) ==
    LET head == DeployType("Session", item)
        as_expert == [i \in 1..Len(head) |-> AsExpert(head[i])]
    IN  IF item.kind = "Transfer"
        THEN [panic |-> TRUE, elements |-> <<>>]
        ELSE [panic |-> FALSE,
              elements |-> as_expert \o parsed
                             \o ParseRuntimeArgs(
                                  Without(item.args,
                                          {ARG_AMOUNT, DELEGATOR_ARG_KEY, VALIDATOR_ARG_KEY,
                                           NEW_VALIDATOR_ARG_KEY}))]

ParseAuctionItem(item, parsed) ==
    LET head == DeployType("Session", item)
        as_expert == [i \in 1..Len(head) |-> AsExpert(head[i])]
    IN  IF item.kind = "Transfer"
        THEN [panic |-> TRUE, elements |-> <<>>]
        ELSE [panic |-> FALSE, elements |-> as_expert \o parsed]

(***************************************************************************)
(* The executable items parse_phase is run on.  An item is                 *)
(* [kind, module_bytes, hash, name, entry_point, version, args]; a field   *)
(* its kind does not have is empty.                                        *)
(***************************************************************************)
MaxExtra == 1

NoVersion == [some |-> FALSE, v |-> 0]
SomeVersion(v) == [some |-> TRUE, v |-> v]

\* the value an argument of each name carries
ArgValue(key, auction) ==
    CASE key = ARG_AMOUNT            -> ClU512(1234567)
      [] key = DELEGATOR_ARG_KEY     -> ClPublicKey(<<"0", "1", "a", "b">>)
      [] key = VALIDATOR_ARG_KEY     -> ClPublicKey(<<"0", "1", "c", "d">>)
      [] key = NEW_VALIDATOR_ARG_KEY -> ClPublicKey(<<"0", "1", "e", "f">>)
      [] key = AUCTION_ARG_KEY       -> auction
      [] key = ARG_ID                -> ClU64(999)
      [] key = ARG_SOURCE            -> ClString(<<"u", "r", "e", "f", "-", "0", "7">>)
      [] key = ARG_TARGET            -> ClString(<<"0", "1", "0", "1">>)
      [] key = ARG_TO                -> ClString(<<"e", "0", "e", "0">>)

CoreNames  == {ARG_AMOUNT, DELEGATOR_ARG_KEY, VALIDATOR_ARG_KEY, NEW_VALIDATOR_ARG_KEY}
ExtraNames == {ARG_ID, ARG_SOURCE, ARG_TARGET, ARG_TO}

\* `auction` arguments: mixed case, lower case, upper case, another word and
\* a value that is not a String
AuctionValues ==
    { ClString(<<"D", "e", "l", "e", "g", "a", "t", "e">>), ClString(UNDELEGATE_ENTRYPOINT),
      ClString(<<"R", "E", "D", "E", "L", "E", "G", "A", "T", "E">>), ClString(<<"b", "i", "d">>), ClU64(7) }

ArgsOf(names, auction) == [k \in names |-> ArgValue(k, auction)]

\* the argument maps: any core names, with or without `auction`, and extras
ArgSets(auctions, extras) ==
    { ArgsOf(core \cup extra, ClU64(0)) :
        core \in SUBSET CoreNames, extra \in extras }
    \cup
    { ArgsOf(core \cup extra \cup {AUCTION_ARG_KEY}, a) :
        core \in SUBSET CoreNames, extra \in extras, a \in auctions }

FewExtras == { e \in SUBSET ExtraNames : Cardinality(e) <= MaxExtra }

EntryPoints ==
    { DELEGATE_ENTRYPOINT, UNDELEGATE_ENTRYPOINT, REDELEGATE_ENTRYPOINT,
      <<"D", "e", "l", "e", "g", "a", "t", "e">> }

ModuleBytesItems ==
    { [kind |-> "ModuleBytes", module_bytes |-> b, hash |-> <<>>, name |-> <<>>,
       entry_point |-> <<>>, version |-> NoVersion, args |-> a] :
        b \in {<<>>, <<0, 97>>}, a \in ArgSets(AuctionValues, FewExtras) }

StoredItems ==
    { [kind |-> k.kind, module_bytes |-> <<>>, hash |-> k.hash, name |-> k.name,
       entry_point |-> ep, version |-> k.version, args |-> a] :
        k \in { [kind |-> "StoredContractByHash", hash |-> <<"0", "3", "0", "3">>,
                 name |-> <<>>, version |-> NoVersion],
                [kind |-> "StoredContractByName", hash |-> <<>>,
                 name |-> <<"d", "e", "x">>, version |-> NoVersion],
                [kind |-> "StoredVersionedContractByHash", hash |-> <<"0", "3", "0", "3">>,
                 name |-> <<>>, version |-> NoVersion],
                [kind |-> "StoredVersionedContractByHash", hash |-> <<"0", "3", "0", "3">>,
                 name |-> <<>>, version |-> SomeVersion(12)],
                [kind |-> "StoredVersionedContractByName", hash |-> <<>>,
                 name |-> <<"d", "e", "x">>, version |-> NoVersion],
                [kind |-> "StoredVersionedContractByName", hash |-> <<>>,
                 name |-> <<"d", "e", "x">>, version |-> SomeVersion(12)] },
        ep \in EntryPoints,
        a \in ArgSets({ClString(DELEGATE_ENTRYPOINT)}, FewExtras) }

TransferItems ==
    { [kind |-> "Transfer", module_bytes |-> <<>>, hash |-> <<>>, name |-> <<>>,
       entry_point |-> <<>>, version |-> NoVersion, args |-> a] :
        a \in ArgSets({ClString(DELEGATE_ENTRYPOINT)}, SUBSET ExtraNames) }

\* amounts of every number of digits a 32-bit integer has, around the places
\* where a group of three begins
Amounts ==
    {0, 1, 9, 10, 99, 100, 999, 1000, 1001, 9999, 10000, 99999, 100000,
     999999, 1000000, 9999999, 10000000, 99999999, 100000000, 999999999,
     1000000000, 2147483647}

\* a system payment, a generic call of a stored contract and a delegation,
\* an undelegation and a redelegation through it, each with the amount n
AmountItems ==
    { [kind |-> "ModuleBytes", module_bytes |-> <<>>, hash |-> <<>>, name |-> <<>>,
       entry_point |-> <<>>, version |-> NoVersion,
       args |-> [k \in {ARG_AMOUNT} |-> ClU512(n)]] : n \in Amounts }
    \cup
    { [kind |-> "StoredContractByName", module_bytes |-> <<>>, hash |-> <<>>,
       name |-> <<"d", "e", "x">>, entry_point |-> ep, version |-> NoVersion,
       args |-> [ArgsOf(CoreNames, ClU64(0)) EXCEPT ![ARG_AMOUNT] = ClU512(n)]] :
         n \in Amounts,
         ep \in {DELEGATE_ENTRYPOINT, UNDELEGATE_ENTRYPOINT, REDELEGATE_ENTRYPOINT,
                 <<"c", "a", "l", "l">>} }

Items == ModuleBytesItems \cup StoredItems \cup TransferItems

NoItem ==
    [kind |-> "Transfer", module_bytes |-> <<>>, hash |-> <<>>, name |-> <<>>,
     entry_point |-> <<>>, version |-> NoVersion, args |-> <<>>]

PhaseInit ==
    /\ deploy_item \in Items
    /\ txn_phase \in {"Payment", "Session"}
    /\ ppc = "start"
    /\ elements = <<>>

\* parse_phase is called on an item carrying one of the amounts
AmountInit ==
    /\ deploy_item \in AmountItems
    /\ txn_phase \in {"Payment", "Session"}
    /\ ppc = "start"
    /\ elements = <<>>

(***************************************************************************)
(* parse_phase, one action per branch of its if-chain.                     *)
(***************************************************************************)
\* the conditions of the if-chain (deploy.rs:44-51); each is_* call runs
\* get_auction_arg, which may panic
ParsePhaseClassify ==
    /\ ppc = "start"
    /\ ppc' = IF GetAuctionArg(deploy_item).panic THEN "panic"
              ELSE IF IsDelegate(deploy_item) THEN "delegate"
              ELSE IF IsUndelegate(deploy_item) THEN "undelegate"
              ELSE IF IsRedelegate(deploy_item) THEN "redelegate"
              ELSE "else"
    /\ UNCHANGED <<deploy_item, txn_phase, elements>>
    /\ UNCHANGED <<pageVars, viewVars, hexVars, mainVars, sampleVars>>

\* the result of parse_auction_item is what parse_phase returns
AuctionReturn(parsed) ==
    LET r == ParseAuctionItem(deploy_item, parsed) IN
    /\ ppc' = IF r.panic THEN "panic" ELSE "done"
    /\ elements' = r.elements
    /\ UNCHANGED <<deploy_item, txn_phase>>
    /\ UNCHANGED <<pageVars, viewVars, hexVars, mainVars, sampleVars>>

ParseDelegation ==
    /\ ppc = "delegate"
    /\ AuctionReturn(DelegationArgs(deploy_item.args))

ParseUndelegation ==
    /\ ppc = "undelegate"
    /\ AuctionReturn(UndelegationArgs(deploy_item.args))

ParseRedelegation ==
    /\ ppc = "redelegate"
    /\ AuctionReturn(RedelegationArgs(deploy_item.args))

ParsePhaseElse ==
    /\ ppc = "else"
    /\ ppc' = "done"
    /\ elements' = ParsePhaseGeneric(deploy_item, txn_phase)
    /\ UNCHANGED <<deploy_item, txn_phase>>
    /\ UNCHANGED <<pageVars, viewVars, hexVars, mainVars, sampleVars>>

(***************************************************************************)
(* A deploy turned into its elements and rendered: parse_phase as a        *)
(* function, parse_deploy_header, parse_approvals, Into<Elements> for      *)
(* Deploy.  A deploy is [header, payment, session, approvals], approvals   *)
(* being the number of signatures.                                         *)
(***************************************************************************)
\* parse_phase: [panic, elements]
ParsePhase(item, phase) ==
    IF GetAuctionArg(item).panic THEN [panic |-> TRUE, elements |-> <<>>]
    ELSE IF IsDelegate(item)
         THEN ParseAuctionItem(item, DelegationArgs(item.args))
    ELSE IF IsUndelegate(item)
         THEN ParseAuctionItem(item, UndelegationArgs(item.args))
    ELSE IF IsRedelegate(item)
         THEN ParseAuctionItem(item, RedelegationArgs(item.args))
    ELSE [panic |-> FALSE, elements |-> ParsePhaseGeneric(item, phase)]

\* parse_deploy_header; dh holds the texts of chain_name, account, timestamp
\* and ttl, the gas price and the number of dependencies
ParseDeployHeader(dh) ==
    << Regular(<<"c", "h", "a", "i", "n", " ", "I", "D">>, dh.chain_name),
       Regular(<<"a", "c", "c", "o", "u", "n", "t">>, dh.account),
       ExpertElement(<<"t", "i", "m", "e", "s", "t", "a", "m", "p">>, dh.timestamp),
       ExpertElement(<<"t", "t", "l">>, dh.ttl),
       ExpertElement(<<"g", "a", "s", " ", "p", "r", "i", "c", "e">>, ToDec(dh.gas_price)),
       ExpertElement(<<"D", "e", "p", "s", " ", "#">>, ToDec(dh.dependencies)) >>

ParseApprovalsRegular(d) ==
    << Regular(<<"A", "p", "p", "r", "o", "v", "a", "l", "s", " ", "#">>, ToDec(d.approvals)) >>

\* parse_approvals
ParseApprovals(d) ==
    << ExpertElement(<<"A", "p", "p", "r", "o", "v", "a", "l", "s", " ", "#">>, ToDec(d.approvals)) >>

\* Into<Elements> for Deploy: [panic, elements]; a panic of either
\* parse_phase call ends it
IntoElements(d) ==
    LET deploy_type == IF d.session.kind = "Transfer"
                       THEN <<"T", "r", "a", "n", "s", "f", "e", "r">>
                       ELSE <<"E", "x", "e", "c", "u", "t", "e", " ", "C", "o", "n", "t", "r", "a", "c", "t">>
        payment == ParsePhase(d.payment, "Payment")
        session == ParsePhase(d.session, "Session")
    IN  IF payment.panic \/ session.panic
        THEN [panic |-> TRUE, elements |-> <<>>]
        ELSE [panic |-> FALSE,
              elements |-> <<Regular(<<"T", "y", "p", "e">>, deploy_type)>>
                             \o ParseDeployHeader(d.header)
                             \o payment.elements
                             \o session.elements
                             \o ParseApprovals(d)]

(***************************************************************************)
(* main: every deploy is rendered by from_deploy and printed, in order.    *)
(***************************************************************************)
MaxBatch == 2
MaxApprovals == 2

\* the header and the payment construct gives every deploy
MainHeader ==
    [chain_name |-> <<"m", "a", "i", "n", "n", "e", "t">>, account |-> <<"0", "1", "a", "b">>,
     timestamp |-> <<"2", "0", "2", "1", "-", "0", "5", "-", "0", "4", "T", "1", "4", ":", "2", "0", ":", "3", "5", "Z">>, ttl |-> <<"3", "0", "m">>,
     gas_price |-> 2, dependencies |-> 2]

StandardPayment ==
    [kind |-> "ModuleBytes", module_bytes |-> <<>>, hash |-> <<>>, name |-> <<>>,
     entry_point |-> <<>>, version |-> NoVersion,
     args |-> ArgsOf({ARG_AMOUNT}, ClU64(0))]

\* sessions: a transfer, a delegation through a stored contract, a contract
\* whose `auction` argument is not a String, a generic versioned call
MainSessions ==
    { [kind |-> "Transfer", module_bytes |-> <<>>, hash |-> <<>>, name |-> <<>>,
       entry_point |-> <<>>, version |-> NoVersion,
       args |-> ArgsOf({ARG_AMOUNT, ARG_TARGET, ARG_ID}, ClU64(0))],
      [kind |-> "StoredContractByName", module_bytes |-> <<>>, hash |-> <<>>,
       name |-> <<"d", "e", "x">>, entry_point |-> DELEGATE_ENTRYPOINT,
       version |-> NoVersion,
       args |-> ArgsOf({DELEGATOR_ARG_KEY, VALIDATOR_ARG_KEY, ARG_AMOUNT}, ClU64(0))],
      [kind |-> "ModuleBytes", module_bytes |-> <<0, 97>>, hash |-> <<>>,
       name |-> <<>>, entry_point |-> <<>>, version |-> NoVersion,
       args |-> ArgsOf({AUCTION_ARG_KEY}, ClU64(7))],
      [kind |-> "StoredVersionedContractByHash", module_bytes |-> <<>>,
       hash |-> <<"0", "3", "0", "3">>, name |-> <<>>, entry_point |-> <<"D", "e", "l", "e", "g", "a", "t", "e">>,
       version |-> NoVersion,
       args |-> ArgsOf({VALIDATOR_ARG_KEY, ARG_ID}, ClU64(0))] }

Deploys ==
    { [header |-> MainHeader, payment |-> StandardPayment, session |-> ses,
       approvals |-> n] : ses \in MainSessions, n \in 1..MaxApprovals }

\* a call with n arguments k100, k101, ..., whose sorted order is their
\* numeric order
MaxArgs == 101

ManyArgs(n) ==
    [k \in { <<"k">> \o ToDec(100 + i) : i \in 0..(n - 1) } |-> ClU64(999)]

ArgCounts == {0, 1, 10, 11, MaxArgs}

ManyArgDeploy(n) ==
    [header |-> MainHeader, payment |-> StandardPayment,
     session |-> [kind |-> "StoredContractByName", module_bytes |-> <<>>,
                  hash |-> <<>>, name |-> <<"d", "e", "x">>,
                  entry_point |-> <<"c", "a", "l", "l">>, version |-> NoVersion,
                  args |-> ManyArgs(n)],
     approvals |-> 1]

\* one deploy for each kind of item and each auction operation, with a
\* payment by a stored contract or the standard one
KindDeploys ==
    { [header |-> MainHeader, payment |-> pay, session |-> ses, approvals |-> 1] :
        pay \in { StandardPayment,
                  [kind |-> "StoredContractByHash", module_bytes |-> <<>>,
                   hash |-> <<"0", "3", "0", "3">>, name |-> <<>>,
                   entry_point |-> <<"p", "a", "y">>, version |-> NoVersion,
                   args |-> ArgsOf({ARG_AMOUNT}, ClU64(0))] },
        ses \in
          { [kind |-> "Transfer", module_bytes |-> <<>>, hash |-> <<>>, name |-> <<>>,
             entry_point |-> <<>>, version |-> NoVersion,
             args |-> ArgsOf({ARG_TO, ARG_SOURCE, ARG_TARGET, ARG_AMOUNT, ARG_ID}, ClU64(0))],
            [kind |-> "ModuleBytes", module_bytes |-> <<0, 97>>, hash |-> <<>>,
             name |-> <<>>, entry_point |-> <<>>, version |-> NoVersion,
             args |-> ArgsOf({DELEGATOR_ARG_KEY, VALIDATOR_ARG_KEY, NEW_VALIDATOR_ARG_KEY,
                              ARG_AMOUNT, AUCTION_ARG_KEY},
                             ClString(REDELEGATE_ENTRYPOINT))],
            [kind |-> "ModuleBytes", module_bytes |-> <<0, 97>>, hash |-> <<>>,
             name |-> <<>>, entry_point |-> <<>>, version |-> NoVersion,
             args |-> ArgsOf({ARG_AMOUNT, ARG_ID}, ClU64(0))],
            [kind |-> "StoredContractByHash", module_bytes |-> <<>>,
             hash |-> <<"0", "3", "0", "3">>, name |-> <<>>,
             entry_point |-> UNDELEGATE_ENTRYPOINT, version |-> NoVersion,
             args |-> ArgsOf({DELEGATOR_ARG_KEY, VALIDATOR_ARG_KEY, ARG_AMOUNT}, ClU64(0))],
            [kind |-> "StoredVersionedContractByName", module_bytes |-> <<>>,
             hash |-> <<>>, name |-> <<"d", "e", "x">>,
             entry_point |-> <<"c", "a", "l", "l">>, version |-> SomeVersion(12),
             args |-> ArgsOf({ARG_AMOUNT, ARG_TARGET}, ClU64(0))] } }

\* the batches: every sequence of up to MaxBatch of the deploys above, each
\* deploy of the kinds and each many-argument deploy alone, and the largest
\* one followed by another deploy
Batches ==
    UNION { [1..n -> Deploys] : n \in 1..MaxBatch }
      \cup { <<d>> : d \in KindDeploys }
      \cup { <<ManyArgDeploy(n)>> : n \in ArgCounts }
      \cup { <<ManyArgDeploy(MaxArgs), d>> : d \in { e \in Deploys : e.approvals = 1 } }

MainInit ==
    /\ deploys \in Batches
    /\ id = 0
    /\ mpc = "loop"
    /\ printed = <<>>

\* print(id, deploy) enters from_deploy: Ledger::from_deploy turns the
\* deploy into its elements, or a parse_phase panics, which ends the process
MainLedger ==
    /\ mpc = "loop"
    /\ id < Len(deploys)
    /\ LET into == IntoElements(deploys[id + 1]) IN
         IF into.panic
         THEN /\ mpc' = "panic"
              /\ UNCHANGED <<ledger, vpc>>
         ELSE /\ mpc' = "from_deploy"
              /\ ledger' = into.elements
              /\ vpc' = "start"
    /\ UNCHANGED <<deploys, id, printed, pages, output, output_expert>>
    /\ UNCHANGED <<pageVars, hexVars, phaseVars, sampleVars>>

\* from_deploy has returned its JsonRepr: print prints it and the loop goes
\* to the next deploy
MainPrint ==
    /\ mpc = "from_deploy"
    /\ vpc = "done"
    /\ printed' = Append(printed,
                     [index |-> id, name |-> <<"t", "e", "s", "t">>,
                      output |-> output, output_expert |-> output_expert])
    /\ id' = id + 1
    /\ mpc' = "loop"
    /\ vpc' = "idle"
    /\ ledger' = <<>> /\ pages' = <<>> /\ output' = <<>> /\ output_expert' = <<>>
    /\ UNCHANGED deploys
    /\ UNCHANGED <<pageVars, hexVars, phaseVars, sampleVars>>

\* a panic inside from_deploy unwinds through print and main
MainPanic ==
    /\ mpc = "from_deploy"
    /\ vpc = "panic"
    /\ mpc' = "panic"
    /\ UNCHANGED <<deploys, id, printed>>
    /\ UNCHANGED <<pageVars, viewVars, hexVars, phaseVars, sampleVars>>

\* main returns when the loop is over
MainReturn ==
    /\ mpc = "loop"
    /\ id = Len(deploys)
    /\ mpc' = "exit"
    /\ UNCHANGED <<deploys, id, printed>>
    /\ UNCHANGED <<pageVars, viewVars, hexVars, phaseVars, sampleVars>>

(***************************************************************************)
(* sample.rs and test_data: the generators of the sample deploys.          *)
(***************************************************************************)
\* Sample::new
SampleNew(label, sample, valid) ==
    [label |-> label, sample |-> sample, valid |-> valid]

\* Sample::add_label
AddLabel(s, label) == [s EXCEPT !.label = @ \o <<"_", "_">> \o label]

\* Sample::map_sample, given the value the closure returns: the label and
\* the validity stay
MapSample(s, mapped) == [s EXCEPT !.sample = mapped]

\* test_data/auction/commons.rs, sample_executables; base_label is the
\* Option<String> as a sequence of 0 or 1 labels; the hashes of 32 bytes 1
\* are written 0101
SampleExecutables(entry_point, args, base_label, valid) ==
    LET contract_name == entry_point \o <<"-", "c", "o", "n", "t", "r", "a", "c", "t">>
        deploy_items ==
          << SampleNew(<<"t", "y", "p", "e", ":", "b", "y", "-", "h", "a", "s", "h">>,
                       [kind |-> "StoredContractByHash", module_bytes |-> <<>>,
                        hash |-> <<"0", "1", "0", "1">>, name |-> <<>>,
                        entry_point |-> entry_point, version |-> NoVersion,
                        args |-> args], valid),
             SampleNew(<<"t", "y", "p", "e", ":", "b", "y", "-", "n", "a", "m", "e">>,
                       [kind |-> "StoredContractByName", module_bytes |-> <<>>,
                        hash |-> <<>>, name |-> contract_name,
                        entry_point |-> entry_point, version |-> NoVersion,
                        args |-> args], valid),
             SampleNew(<<"t", "y", "p", "e", ":", "v", "e", "r", "s", "i", "o", "n", "e", "d", "-", "b", "y", "-", "h", "a", "s", "h">>,
                       [kind |-> "StoredVersionedContractByHash", module_bytes |-> <<>>,
                        hash |-> <<"0", "1", "0", "1">>, name |-> <<>>,
                        entry_point |-> entry_point, version |-> SomeVersion(1),
                        args |-> args], valid),
             SampleNew(<<"t", "y", "p", "e", ":", "v", "e", "r", "s", "i", "o", "n", "e", "d", "-", "b", "y", "-", "n", "a", "m", "e">>,
                       [kind |-> "StoredVersionedContractByName", module_bytes |-> <<>>,
                        hash |-> <<>>, name |-> contract_name,
                        entry_point |-> entry_point, version |-> SomeVersion(1),
                        args |-> args], valid) >>
    IN  [i \in 1..Len(deploy_items) |->
           IF base_label = <<>> THEN deploy_items[i]
           ELSE AddLabel(deploy_items[i], base_label[1])]

\* sample_module_bytes
SampleModuleBytes(args) ==
    SampleNew(<<"t", "y", "p", "e", ":", "m", "o", "d", "u", "l", "e", "-", "b", "y", "t", "e", "s">>,
              [kind |-> "ModuleBytes", module_bytes |-> <<>>, hash |-> <<>>,
               name |-> <<>>, entry_point |-> <<>>, version |-> NoVersion,
               args |-> args], TRUE)

\* enrich_label
EnrichLabel(sample, entry_point) ==
    SampleNew(entry_point \o <<"-">> \o sample.label, sample.sample, sample.valid)

\* RuntimeArgs::insert
Insert(args, key, value) ==
    [k \in DOMAIN args \cup {key} |-> IF k = key THEN value ELSE args[k]]

\* the keys of the samples: 32 bytes 1, 3 and 6
SampleDelegator    == ClPublicKey(<<"0", "1", "0", "1">>)
SampleValidator    == ClPublicKey(<<"0", "1", "0", "3">>)
SampleNewValidator == ClPublicKey(<<"0", "1", "0", "6">>)

\* From<Delegate> for RuntimeArgs, From<Undelegate> for RuntimeArgs
DelegateRuntimeArgs(amount) ==
    Insert(Insert(Insert(<<>>, DELEGATOR_ARG_KEY, SampleDelegator),
                  VALIDATOR_ARG_KEY, SampleValidator),
           ARG_AMOUNT, ClU512(amount))

RedelegateRuntimeArgsNoNewValidator(amount) ==
    Insert(Insert(Insert(<<>>, DELEGATOR_ARG_KEY, SampleDelegator),
                  VALIDATOR_ARG_KEY, SampleValidator),
           ARG_AMOUNT, ClU512(amount))

\* From<Redelegate> for RuntimeArgs
RedelegateRuntimeArgs(amount) ==
    Insert(Insert(Insert(Insert(<<>>, DELEGATOR_ARG_KEY, SampleDelegator),
                         VALIDATOR_ARG_KEY, SampleValidator),
                  NEW_VALIDATOR_ARG_KEY, SampleNewValidator),
           ARG_AMOUNT, ClU512(amount))

\* sample_redelegations, sample_delegations: amount_min, amount_mid and
\* amount_max, the last written as the largest integer at hand
SampleAmounts == <<0, 100000000, 2147483647>>

SampleArgs(entry_point) ==
    [i \in 1..Len(SampleAmounts) |->
        IF entry_point = REDELEGATE_ENTRYPOINT
        THEN RedelegateRuntimeArgs(SampleAmounts[i])
        ELSE DelegateRuntimeArgs(SampleAmounts[i])]

\* the argument lists valid is called with: up to MaxRa of the sample
\* arguments of the entry point, in any order
MaxRa == 3

RaLists(entry_point) ==
    UNION { [1..n -> { SampleArgs(entry_point)[i] : i \in 1..Len(SampleAmounts) }] :
              n \in 0..MaxRa }

ValidInit ==
    /\ valid_entrypoint \in {DELEGATE_ENTRYPOINT, UNDELEGATE_ENTRYPOINT, REDELEGATE_ENTRYPOINT}
    /\ ra \in RaLists(valid_entrypoint)
    /\ ra_idx = 0
    /\ valid_output = <<>>
    /\ gpc = "executables"

\* valid, the inner loop of one iteration: the four stored variants
ValidPushExecutables ==
    /\ gpc = "executables"
    /\ ra_idx < Len(ra)
    /\ LET made == SampleExecutables(valid_entrypoint, ra[ra_idx + 1], <<>>, TRUE) IN
       valid_output' = valid_output
                         \o [i \in 1..Len(made) |-> EnrichLabel(made[i], valid_entrypoint)]
    /\ gpc' = "module_bytes"
    /\ UNCHANGED <<valid_entrypoint, ra, ra_idx>>
    /\ UNCHANGED <<pageVars, viewVars, hexVars, phaseVars, mainVars, constructVars>>

\* valid, the rest of the iteration: the ModuleBytes variant with `auction`
ValidPushModuleBytes ==
    /\ gpc = "module_bytes"
    /\ LET with_auction == Insert(ra[ra_idx + 1], AUCTION_ARG_KEY, ClString(valid_entrypoint)) IN
       valid_output' = Append(valid_output,
                              EnrichLabel(SampleModuleBytes(with_auction), valid_entrypoint))
    /\ ra_idx' = ra_idx + 1
    /\ gpc' = "executables"
    /\ UNCHANGED <<valid_entrypoint, ra>>
    /\ UNCHANGED <<pageVars, viewVars, hexVars, phaseVars, mainVars, constructVars>>

ValidReturn ==
    /\ gpc = "executables"
    /\ ra_idx = Len(ra)
    /\ gpc' = "done"
    /\ UNCHANGED <<valid_entrypoint, ra, ra_idx, valid_output>>
    /\ UNCHANGED <<pageVars, viewVars, hexVars, phaseVars, mainVars, constructVars>>

\* test_data/system_payment.rs
SystemPaymentValid ==
    SampleNew(<<"p", "a", "y", "m", "e", "n", "t", ":", "s", "y", "s", "t", "e", "m">>,
              [kind |-> "ModuleBytes", module_bytes |-> <<>>, hash |-> <<>>,
               name |-> <<>>, entry_point |-> <<>>, version |-> NoVersion,
               args |-> Insert(<<>>, ARG_AMOUNT, ClU512(1000000000))], TRUE)

SystemPaymentInvalid ==
    SampleNew(<<"p", "a", "y", "m", "e", "n", "t", ":", "s", "y", "s", "t", "e", "m", "-", "m", "i", "s", "s", "i", "n", "g", ":", "a", "m", "o", "u", "n", "t">>,
              [kind |-> "ModuleBytes", module_bytes |-> <<>>, hash |-> <<>>,
               name |-> <<>>, entry_point |-> <<>>, version |-> NoVersion,
               args |-> Insert(<<>>, <<"p", "a", "y", "i", "n", "g">>, ClU512(1000000000))], FALSE)

\* the payment samples of valid_samples and redelegate_samples, of
\* invalid_samples, and of generic_samples
PaymentSampleLists ==
    { <<SystemPaymentValid>>,
      <<SystemPaymentInvalid, SystemPaymentValid>>,
      <<SystemPaymentInvalid>> }

\* session samples: a valid redelegation through ModuleBytes, and one of
\* invalid_redelegation that lacks new_validator
SessionSamplePool ==
    { EnrichLabel(SampleModuleBytes(Insert(RedelegateRuntimeArgs(0), AUCTION_ARG_KEY,
                                            ClString(REDELEGATE_ENTRYPOINT))),
                  REDELEGATE_ENTRYPOINT),
      SampleExecutables(REDELEGATE_ENTRYPOINT, DelegateRuntimeArgs(100000000),
                        <<<<"m", "i", "s", "s", "i", "n", "g", "_", "n", "e", "w", "_", "v", "a", "l", "i", "d", "a", "t", "o", "r">>>>, FALSE)[1] }

MaxSessions == 2

MIN_APPROVALS_COUNT == 1
MAX_APPROVALS_COUNT == 10

\* `key_count`, of which a shuffle puts any one first
KeyCounts == {MIN_APPROVALS_COUNT, 3, MAX_APPROVALS_COUNT}

NoSample == SampleNew(<<>>, <<>>, FALSE)

ConstructInit ==
    /\ session_samples \in UNION { [1..n -> SessionSamplePool] : n \in 0..MaxSessions }
    /\ payment_samples \in PaymentSampleLists
    /\ session_idx = 0
    /\ payment_idx = 0
    /\ sample_session = NoSample
    /\ secondary_keys = 0
    /\ samples = <<>>
    /\ cpc = "loop"

\* construct_samples picks the number of keys and calls make_deploy_sample,
\* which splits the keys, builds the deploy signed by the main key and maps
\* the session sample to it; the ttl and the dependencies, which no later
\* step reads, are those of MainHeader
MakeDeploySample ==
    /\ cpc = "loop"
    /\ session_idx < Len(session_samples)
    /\ \E key_count \in KeyCounts :
         LET session == session_samples[session_idx + 1]
             payment == payment_samples[payment_idx + 1]
             deploy == [header |-> MainHeader, payment |-> payment.sample,
                        session |-> session.sample, approvals |-> 1]
         IN  /\ sample_session' = MapSample(session, deploy)
             /\ secondary_keys' = key_count - 1
    /\ cpc' = "sign"
    /\ UNCHANGED <<session_samples, payment_samples, session_idx, payment_idx, samples>>
    /\ UNCHANGED <<pageVars, viewVars, hexVars, phaseVars, mainVars, validVars>>

\* make_deploy_sample, one iteration of `for key in secondary_keys`
SignSecondary ==
    /\ cpc = "sign"
    /\ secondary_keys > 0
    /\ LET deploy == sample_session.sample
           session_validity == sample_session.valid
           payment_validity == payment_samples[payment_idx + 1].valid
       IN  sample_session' =
             SampleNew(sample_session.label,
                       [deploy EXCEPT !.approvals = @ + 1],
                       session_validity /\ payment_validity)
    /\ secondary_keys' = secondary_keys - 1
    /\ UNCHANGED <<session_samples, payment_samples, session_idx, payment_idx, samples, cpc>>
    /\ UNCHANGED <<pageVars, viewVars, hexVars, phaseVars, mainVars, validVars>>

\* make_deploy_sample adds the label of the payment and returns;
\* construct_samples pushes the sample and goes to the next pair
PushSample ==
    /\ cpc = "sign"
    /\ secondary_keys = 0
    /\ samples' = Append(samples,
                         AddLabel(sample_session, payment_samples[payment_idx + 1].label))
    /\ IF payment_idx + 1 < Len(payment_samples)
       THEN /\ payment_idx' = payment_idx + 1
            /\ UNCHANGED session_idx
       ELSE /\ payment_idx' = 0
            /\ session_idx' = session_idx + 1
    /\ sample_session' = NoSample
    /\ cpc' = "loop"
    /\ UNCHANGED <<session_samples, payment_samples, secondary_keys>>
    /\ UNCHANGED <<pageVars, viewVars, hexVars, phaseVars, mainVars, validVars>>

ConstructReturn ==
    /\ cpc = "loop"
    /\ session_idx = Len(session_samples)
    /\ cpc' = "done"
    /\ UNCHANGED <<session_samples, payment_samples, session_idx, payment_idx,
                   sample_session, secondary_keys, samples>>
    /\ UNCHANGED <<pageVars, viewVars, hexVars, phaseVars, mainVars, validVars>>

(***************************************************************************)
(* Properties of from_element and LedgerPageView::to_string (Spec).        *)
(***************************************************************************)
\* top then bottom of every page, in page order
RECURSIVE Reassemble(_)
Reassemble(vs) ==
    IF vs = <<>> THEN <<>>
    ELSE vs[1].top \o vs[1].bottom \o Reassemble(Tail(vs))

Returned == pc \in {"done", "printed"}

\* C1: for a value of any length, top then bottom of every page from_element
\* built, concatenated in page order, is the value itself: no character is
\* lost, duplicated or reordered.  During the walk the pages pushed so far
\* followed by the current page are the characters consumed so far.
C1_LosslessReassembly ==
    /\ Returned => Reassemble(page_view.values) = element.value
    /\ pc = "walk" =>
         Reassemble(values) \o curr_value.top \o curr_value.bottom
           = SubSeq(element.value, 1, pos)

C1_Witness ==
    /\ pc = "done"
    /\ Len(element.value) = 68
    /\ Len(page_view.values) = 2
    /\ element.value[12] = " "

\* C2: at every step of the walk top holds at most 17 characters, bottom at
\* most 17, and bottom is non-empty only when top holds exactly 17; a value of
\* 17 characters lies in top with bottom empty and a value of 18 characters
\* puts exactly its last character in bottom.
C2_PageShape(v) ==
    /\ Len(v.top) <= 17
    /\ Len(v.bottom) <= 17
    /\ (v.bottom # <<>> => Len(v.top) = 17)

C2_PageCapacity ==
    /\ \A i \in 1..Len(values) : C2_PageShape(values[i])
    /\ C2_PageShape(curr_value)
    /\ (Returned /\ Len(element.value) = 17) =>
         page_view.values = <<[top |-> element.value, bottom |-> <<>>]>>
    /\ (Returned /\ Len(element.value) = 18) =>
         page_view.values = <<[top    |-> SubSeq(element.value, 1, 17),
                               bottom |-> <<element.value[18]>>]>>

C2_Witness ==
    /\ pc = "done"
    /\ Len(element.value) = 18
    /\ page_view.values[1].bottom = <<"2">>

\* C3: from_element yields exactly max(1, ceil(len / 34)) pages: one empty page
\* for an empty value, no trailing empty page for a positive multiple of 34,
\* every page but the last completely full; the inner assertion never fails
\* and the walk terminates.
C3_Pages ==
    /\ pc # "assert_failed"
    /\ pos <= Len(element.value)
    /\ Returned =>
         LET n == Len(element.value)
             N == Len(page_view.values)
         IN  /\ N = Max(1, (n + 33) \div 34)
             /\ \A i \in 1..(N - 1) :
                  /\ Len(page_view.values[i].top) = 17
                  /\ Len(page_view.values[i].bottom) = 17
             /\ n = 0 => page_view.values = <<[top |-> <<>>, bottom |-> <<>>]>>

C3_PageCount == [](C3_Pages) /\ <>(pc \in {"printed", "panic"})

C3_Witness ==
    /\ pc = "done"
    /\ Len(element.value) = 68
    /\ Len(page_view.values) = 2
    /\ Len(page_view.values[2].bottom) = 17

\* C4: from_element panics for every name longer than 11 characters and
\* returns a view for a name of exactly 11 characters; the view carries the
\* name whole.
C4_NameBound ==
    pc # "start" =>
        /\ (pc = "panic" <=> Len(element.name) > 11)
        /\ (Returned => page_view.name = element.name)

C4_Witness ==
    /\ pc = "done"
    /\ Len(element.name) = 11
    /\ Len(page_view.name) = 11

\* C5: a field of one page renders as the single line "{name} : {page}"; a
\* field of N > 1 pages renders as the N lines "{name} [{i}/{N}] : {page}",
\* i from 1 to N in page order, {page} being top followed by bottom.
C5_Digit(i) == Digits[i + 1]

C5_PageLines ==
    pc = "printed" =>
        LET N  == Len(page_view.values)
            pg(i) == page_view.values[i].top \o page_view.values[i].bottom
        IN  IF N = 1
            THEN lines = << element.name \o <<" ", ":", " ">> \o pg(1) >>
            ELSE /\ N < 10
                 /\ Len(lines) = N
                 /\ \A i \in 1..N :
                      lines[i] = element.name
                                   \o <<" ", "[", C5_Digit(i), "/", C5_Digit(N),
                                        "]", " ", ":", " ">>
                                   \o pg(i)

C5_Witness ==
    /\ pc = "printed"
    /\ Len(page_view.values) = 3
    /\ Len(lines) = 3

(***************************************************************************)
(* Properties of LedgerView::to_string as from_deploy runs it (SpecView).  *)
(***************************************************************************)
\* the position of the first " | " of a line
BarAt(line) ==
    CHOOSE i \in 1..(Len(line) - 2) :
        /\ line[i] = " " /\ line[i + 1] = "|" /\ line[i + 2] = " "
        /\ \A j \in 1..(i - 1) :
             ~(line[j] = " " /\ line[j + 1] = "|" /\ line[j + 2] = " ")

\* the "{index}" of a line, as a number, and the line without "{index} | "
RECURSIVE DecValue(_)
DecValue(ds) ==
    IF ds = <<>> THEN 0
    ELSE 10 * DecValue(SubSeq(ds, 1, Len(ds) - 1))
           + (CHOOSE d \in 0..9 : Digits[d + 1] = ds[Len(ds)])

LineIndex(line) == DecValue(SubSeq(line, 1, BarAt(line) - 1))
Stripped(line)  == SubSeq(line, BarAt(line) + 3, Len(line))
StrippedAll(ls) == [k \in 1..Len(ls) |-> Stripped(ls[k])]

\* the fields of the ledger a view shows, in ledger order
RECURSIVE ShownFields(_, _)
ShownFields(es, expert) ==
    IF es = <<>> THEN <<>>
    ELSE (IF es[1].expert /\ ~expert THEN <<>> ELSE <<es[1]>>)
           \o ShownFields(Tail(es), expert)

\* the number of pages of a value of n characters
PagesOf(n) == Max(1, (n + 33) \div 34)

\* the field (from 1) that line k (from 1) belongs to, field i giving
\* PagesOf(Len(fs[i].value)) lines
RECURSIVE OwnerField(_, _)
OwnerField(fs, k) ==
    IF k <= PagesOf(Len(fs[1].value)) THEN 1
    ELSE 1 + OwnerField(Tail(fs), k - PagesOf(Len(fs[1].value)))

RECURSIVE TotalLines(_)
TotalLines(fs) ==
    IF fs = <<>> THEN 0 ELSE PagesOf(Len(fs[1].value)) + TotalLines(Tail(fs))

\* C6 as stated: the k-th line (k from 0) of a view carries index k, so the
\* counter increments once per emitted line.
C6_IndexPerLine ==
    vpc = "done" =>
        /\ \A k \in 1..Len(output) : LineIndex(output[k]) = k - 1
        /\ \A k \in 1..Len(output_expert) : LineIndex(output_expert[k]) = k - 1

\* C6, amended: the "{index} | " prefix comes from a zero-based counter that
\* increments once per field shown in the view, not once per emitted line:
\* every line of the j-th shown field (j from 0) carries index j, so the N
\* lines of a field with N > 1 pages all carry the same index.
C6_ViewIndices(ls, fs) ==
    /\ Len(ls) = TotalLines(fs)
    /\ \A k \in 1..Len(ls) : LineIndex(ls[k]) = OwnerField(fs, k) - 1

C6_IndexPerField ==
    vpc = "done" =>
        /\ C6_ViewIndices(output, ShownFields(ledger, FALSE))
        /\ C6_ViewIndices(output_expert, ShownFields(ledger, TRUE))

C6_Witness ==
    /\ vpc = "done"
    /\ Len(ledger) = 2
    /\ Len(ledger[1].value) = 69
    /\ ~ledger[1].expert /\ ~ledger[2].expert
    /\ Len(output) >= 4
    /\ LineIndex(output[3]) = 0
    /\ LineIndex(output[4]) = 1

\* C7: to_string(false) emits the lines of exactly the non-Expert fields and
\* to_string(true) the lines of all fields, in field order; the fields are
\* filtered before they are counted, so in each view the indices start at 0
\* and skip no number, and the Regular view without its prefixes is a
\* subsequence of the Expert view without its prefixes.
RECURSIVE FieldLines(_)
FieldLines(fs) ==
    IF fs = <<>> THEN <<>>
    ELSE PageViewToString(FromElement(fs[1]).view) \o FieldLines(Tail(fs))

RECURSIVE IsSubsequence(_, _)
IsSubsequence(a, b) ==
    IF a = <<>> THEN TRUE
    ELSE IF b = <<>> THEN FALSE
    ELSE IF a[1] = b[1] THEN IsSubsequence(Tail(a), Tail(b))
    ELSE IsSubsequence(a, Tail(b))

C7_NoGap(ls) ==
    /\ (ls # <<>> => LineIndex(ls[1]) = 0)
    /\ \A k \in 1..(Len(ls) - 1) :
         LineIndex(ls[k + 1]) - LineIndex(ls[k]) \in {0, 1}

C7_Filtering ==
    vpc = "done" =>
        /\ StrippedAll(output) = FieldLines(ShownFields(ledger, FALSE))
        /\ StrippedAll(output_expert) = FieldLines(ledger)
        /\ C7_NoGap(output)
        /\ C7_NoGap(output_expert)
        /\ IsSubsequence(StrippedAll(output), StrippedAll(output_expert))

C7_Witness ==
    /\ vpc = "done"
    /\ Len(ledger) = 2
    /\ ledger[1].expert /\ ~ledger[2].expert
    /\ Len(output) = 2
    /\ Len(output_expert) = 5
    /\ LineIndex(output[2]) = 0
    /\ LineIndex(output_expert[5]) = 1

(***************************************************************************)
(* Properties of checksummed_hex::encode (SpecHex).                        *)
(***************************************************************************)
UpperLetters == {"A", "B", "C", "D", "E", "F"}
LowerHex == <<"0", "1", "2", "3", "4", "5", "6", "7", "8", "9",
              "a", "b", "c", "d", "e", "f">>

\* the value of the hexadecimal digit at position k (from 0) of the bytes,
\* two digits per byte, high digit first
HexDigitAt(bytes, k) ==
    IF k % 2 = 0 THEN bytes[(k \div 2) + 1] \div 16
    ELSE bytes[(k \div 2) + 1] % 16

\* the number of letter nibbles (value >= 10) among the first k nibbles
LettersBefore(bytes, k) ==
    Cardinality({ i \in 0..(k - 1) : HexDigitAt(bytes, i) >= 10 })

\* C8: encode returns exactly 2 * len(input) characters on the checksummed
\* path and on the plain path and never fails: the index into the 22 entries
\* of HEX_CHARS is always in range.
C8_OutputLength ==
    /\ hpc # "panic"
    /\ hpc = "iter" => Len(out) = nibbleIdx /\ nibbleIdx <= 2 * Len(input)
    /\ hpc = "done" => Len(out) = 2 * Len(input)

C8_Witness ==
    /\ hpc = "done"
    /\ Len(input) = 75
    /\ Len(out) = 150
    /\ out[150] = "F"

\* C9: for an input of more than 75 bytes encode returns plain lowercase hex
\* with no uppercase letter; an input of exactly 75 bytes still takes the
\* checksummed path (every nibble goes through encode_iter) and an input of
\* 76 bytes takes the plain path.
C9_Threshold ==
    /\ hpc = "iter" => Len(input) <= 75
    /\ hpc = "done" =>
         IF Len(input) > 75
         THEN /\ nibbleIdx = 0
              /\ \A k \in 1..Len(out) : out[k] \notin UpperLetters
              /\ out = [k \in 1..(2 * Len(input)) |->
                          LowerHex[HexDigitAt(input, k - 1) + 1]]
         ELSE nibbleIdx = 2 * Len(input)

C9_Witness ==
    /\ hpc = "done"
    /\ Len(input) = 76
    /\ digest[1] = 255
    /\ out[1] = "f"

\* C10 as stated: the bit stream advances by one bit for every nibble
\* processed, digit or letter, so the case of the letter at nibble position k
\* (from 0) is decided by bit k of the stream.
C10_BitPerNibble ==
    hpc = "iter" =>
        /\ bitIdx = nibbleIdx
        /\ \A k \in 0..(Len(out) - 1) :
             HexDigitAt(input, k) >= 10 =>
                (out[k + 1] \in UpperLetters <=> CycleBit(digest, k))

\* C10, amended: on the checksummed path the bit stream advances by exactly
\* one bit for every letter nibble (value >= 10) processed and not at all for
\* a digit nibble: the case of the letter at nibble position k is decided by
\* bit j of the stream, j being the number of letter nibbles before
\* position k.
\* (Checked for the character just emitted in every state of the iteration and
\* for every character of the string once it is collected.)
C10_CaseAt(k) ==
    HexDigitAt(input, k) >= 10 =>
        (out[k + 1] \in UpperLetters
           <=> CycleBit(digest, LettersBefore(input, k)))

C10_BitPerLetter ==
    /\ hpc = "iter" =>
          /\ bitIdx = LettersBefore(input, nibbleIdx)
          /\ Len(out) = nibbleIdx
          /\ nibbleIdx > 0 => C10_CaseAt(nibbleIdx - 1)
    /\ (hpc = "done" /\ Len(input) <= 75) =>
          /\ bitIdx = LettersBefore(input, 2 * Len(input))
          /\ \A k \in 0..(Len(out) - 1) : C10_CaseAt(k)

C10_Witness ==
    /\ hpc = "iter"
    /\ input = <<10, 175>>
    /\ digest[1] = 165
    /\ nibbleIdx = 4
    /\ bitIdx = 3
    /\ out = <<"0", "A", "a", "F">>

\* C11: on the checksummed path a nibble of value >= 10 is emitted as the
\* uppercase letter if and only if the digest bit taken for it is 1 and as the
\* lowercase letter otherwise; a nibble of value < 10 is emitted as its digit
\* whatever the bit stream holds.
UpperHex == <<"0", "1", "2", "3", "4", "5", "6", "7", "8", "9",
              "A", "B", "C", "D", "E", "F">>

C11_Char(d, bit) ==
    IF d < 10 THEN Digits[d + 1]
    ELSE IF bit THEN UpperHex[d + 1] ELSE LowerHex[d + 1]

C11_LetterCase ==
    /\ (hpc = "iter" /\ nibbleIdx > 0) =>
          LET d == HexDigitAt(input, nibbleIdx - 1) IN
          out[nibbleIdx] = C11_Char(d, d >= 10 /\ CycleBit(digest, bitIdx - 1))
    /\ (hpc = "done" /\ Len(input) <= 75) =>
          \A k \in 0..(Len(out) - 1) :
             out[k + 1] = C11_Char(HexDigitAt(input, k),
                                   CycleBit(digest, LettersBefore(input, k)))

C11_Witness ==
    /\ hpc = "done"
    /\ input = <<10, 5>>
    /\ digest[1] = 255
    /\ out = <<"0", "A", "0", "5">>

\* C12: for every byte string b of at most 75 bytes, decoding encode(b) as
\* hexadecimal without regard to case (two characters per byte, high nibble
\* first) gives back b, and encoding the decoded bytes again gives the same
\* string, the case of every letter included.
HexValue(c) == CHOOSE d \in 0..15 : LowerHex[d + 1] = c \/ UpperHex[d + 1] = c

HexDecode(str) ==
    [i \in 1..(Len(str) \div 2) |->
        16 * HexValue(str[2 * i - 1]) + HexValue(str[2 * i])]

C12_RoundTrip ==
    (hpc = "done" /\ Len(input) <= 75) =>
        LET b == HexDecode(out) IN
        /\ Len(out) % 2 = 0
        /\ b = input
        /\ Encode(b, digest) = out

C12_Witness ==
    /\ hpc = "done"
    /\ input = <<175, 10>>
    /\ digest[1] = 165
    /\ out = <<"A", "f", "0", "A">>
    /\ HexDecode(out) = <<175, 10>>

(***************************************************************************)
(* Properties of parse_phase (SpecPhase).                                  *)
(***************************************************************************)
StoredKinds ==
    { "StoredContractByHash", "StoredContractByName",
      "StoredVersionedContractByHash", "StoredVersionedContractByName" }

EqIgnoreCase(a, b) ==
    Len(a) = Len(b) /\ \A i \in 1..Len(a) : CharUpper(a[i]) = CharUpper(b[i])

\* the name / entry-point signal of an operation
Signal(it, op) ==
    \/ it.kind \in StoredKinds /\ it.entry_point = op
    \/ /\ it.kind = "ModuleBytes"
       /\ AUCTION_ARG_KEY \in DOMAIN it.args
       /\ it.args[AUCTION_ARG_KEY].cl_type = "String"
       /\ EqIgnoreCase(it.args[AUCTION_ARG_KEY].str, op)

Required(op) ==
    {DELEGATOR_ARG_KEY, VALIDATOR_ARG_KEY, ARG_AMOUNT}
      \cup (IF op = REDELEGATE_ENTRYPOINT THEN {NEW_VALIDATOR_ARG_KEY} ELSE {})

Classified == ppc \in {"delegate", "undelegate", "redelegate", "else", "panic"}

NamesOf(els) == { els[i].name : i \in 1..Len(els) }

C13_Example ==
    /\ deploy_item.kind = "StoredContractByHash"
    /\ deploy_item.entry_point = DELEGATE_ENTRYPOINT
    /\ ARG_AMOUNT \notin DOMAIN deploy_item.args
    /\ {DELEGATOR_ARG_KEY, VALIDATOR_ARG_KEY} \subseteq DOMAIN deploy_item.args

\* C13: once parse_phase has chosen its branch, the branch is delegate /
\* undelegate / redelegate if and only if the item carries the signal of that
\* operation (entry point equal to the name, or a ModuleBytes `auction` String
\* equal to it ignoring case) and every required argument name; a
\* stored-contract call with entry point "delegate" and no `amount` takes the
\* generic branch and its fields are those of contract execution (kind label
\* Regular, an Entry-point field, no Delegator field).
C13_Classification ==
    /\ Classified =>
         /\ (ppc = "delegate") <=>
               (Signal(deploy_item, DELEGATE_ENTRYPOINT)
                  /\ Required(DELEGATE_ENTRYPOINT) \subseteq DOMAIN deploy_item.args)
         /\ (ppc = "undelegate") <=>
               (Signal(deploy_item, UNDELEGATE_ENTRYPOINT)
                  /\ Required(UNDELEGATE_ENTRYPOINT) \subseteq DOMAIN deploy_item.args)
         /\ (ppc = "redelegate") <=>
               (Signal(deploy_item, REDELEGATE_ENTRYPOINT)
                  /\ Required(REDELEGATE_ENTRYPOINT) \subseteq DOMAIN deploy_item.args)
    /\ C13_Example /\ Classified => ppc = "else"
    /\ C13_Example /\ ppc = "done" =>
         /\ elements[1].expert = FALSE
         /\ <<"E", "n", "t", "r", "y", "-", "p", "o", "i", "n", "t">> \in NamesOf(elements)
         /\ <<"D", "e", "l", "e", "g", "a", "t", "o", "r">> \notin NamesOf(elements)

C13_Witness == C13_Example /\ ppc = "done" /\ Len(elements) > 3

\* C14: for a Transfer item, whatever its arguments, none of is_delegate,
\* is_undelegate, is_redelegate holds, parse_phase never takes a delegation
\* branch and never reaches the panic of parse_auction_item: it returns from
\* its else branch.
C14_TransferNeverAuction ==
    deploy_item.kind = "Transfer" /\ ppc # "idle" =>
        /\ ~IsDelegate(deploy_item)
        /\ ~IsUndelegate(deploy_item)
        /\ ~IsRedelegate(deploy_item)
        /\ ppc \in {"start", "else", "done"}

C14_Witness ==
    /\ deploy_item.kind = "Transfer"
    /\ CoreNames \cup {AUCTION_ARG_KEY} \subseteq DOMAIN deploy_item.args
    /\ deploy_item.args[AUCTION_ARG_KEY] = ClString(DELEGATE_ENTRYPOINT)
    /\ ppc = "done"
    /\ elements # <<>>

SystemPaymentShape ==
    /\ txn_phase = "Payment"
    /\ deploy_item.kind = "ModuleBytes"
    /\ deploy_item.module_bytes = <<>>

\* C15: an item of the system-payment shape (Payment phase, ModuleBytes with
\* empty module bytes) never takes the delegate, undelegate or redelegate
\* branch of parse_phase, whatever its arguments.
C15_SystemPaymentNeverAuction ==
    SystemPaymentShape => ppc \notin {"delegate", "undelegate", "redelegate"}

\* an item of the system-payment shape returned as a delegation: the fields
\* of a session contract, then Delegator, Validator, Amount and no fee
C15_RenderedAsDelegation ==
    /\ SystemPaymentShape
    /\ ppc = "done"
    /\ Len(elements) = 5
    /\ elements[1] = ExpertElement(<<"E", "x", "e", "c", "u", "t", "i", "o", "n">>, <<"c", "o", "n", "t", "r", "a", "c", "t">>)
    /\ elements[3].name = <<"D", "e", "l", "e", "g", "a", "t", "o", "r">>
    /\ <<"F", "e", "e">> \notin NamesOf(elements)

\* the fields of a native transfer: argument name, label shown, visibility
TransferOrder ==
    << [key |-> ARG_TO,     name |-> <<"R", "e", "c", "i", "p", "i", "e", "n", "t">>, expert |-> FALSE],
       [key |-> ARG_SOURCE, name |-> <<"F", "r", "o", "m">>,      expert |-> TRUE],
       [key |-> ARG_TARGET, name |-> <<"T", "a", "r", "g", "e", "t">>,    expert |-> FALSE],
       [key |-> ARG_AMOUNT, name |-> <<"A", "m", "o", "u", "n", "t">>,    expert |-> FALSE],
       [key |-> ARG_ID,     name |-> <<"I", "D">>,        expert |-> TRUE] >>

PresentIn(args, order) ==
    LET Present(f) == f.key \in DOMAIN args IN SelectSeq(order, Present)

\* the text shown for an argument of the modelled items
ShownValue(args, key) ==
    IF key = ARG_AMOUNT THEN <<"1", " ", "2", "3", "4", " ", "5", "6", "7", " ", "m", "o", "t", "e", "s">>
    ELSE IF args[key].cl_type = "U64" THEN <<"9", "9", "9">>
    ELSE args[key].str

RECURSIVE PairedFrom(_, _, _, _)
PairedFrom(els, k, names, idx) ==
    IF names = <<>> THEN Len(els) = k - 1
    ELSE /\ Len(els) >= k + 1
         /\ els[k].expert /\ els[k + 1].expert
         /\ els[k].name = <<"A", "r", "g", "-">> \o ToDec(idx) \o <<"-", "n", "a", "m", "e">>
         /\ els[k].value = names[1]
         /\ els[k + 1].name = <<"A", "r", "g", "-">> \o ToDec(idx) \o <<"-", "v", "a", "l">>
         /\ els[k + 1].value = ShownValue(deploy_item.args, names[1])
         /\ PairedFrom(els, k + 2, Tail(names), idx + 1)

\* C17: a ModuleBytes item is treated as a system payment exactly when the
\* phase is Payment and its module bytes are empty: then parse_phase returns
\* one fee field taken from `amount` followed by the other arguments as
\* paired Expert fields; otherwise it is a contract and the fields start with
\* the contract label of its phase.
C17_SystemPayment ==
    deploy_item.kind = "ModuleBytes" /\ ppc = "done" =>
        IF txn_phase = "Payment" /\ deploy_item.module_bytes = <<>>
        THEN /\ elements # <<>>
             /\ elements[1] = [name |-> <<"F", "e", "e">>,
                               value |-> <<"1", " ", "2", "3", "4", " ", "5", "6", "7", " ", "m", "o", "t", "e", "s">>,
                               expert |-> FALSE]
             /\ PairedFrom(elements, 2,
                           SortedKeys(DOMAIN deploy_item.args \ {ARG_AMOUNT}), 0)
        ELSE /\ elements # <<>>
             /\ elements[1].value = <<"c", "o", "n", "t", "r", "a", "c", "t">>

\* a payment with empty module bytes and an `amount` returned without a fee
C17_NoFee ==
    /\ SystemPaymentShape
    /\ ppc = "done"
    /\ ARG_AMOUNT \in DOMAIN deploy_item.args
    /\ elements[1].name # <<"F", "e", "e">>
    /\ elements[1].value = <<"c", "o", "n", "t", "r", "a", "c", "t">>

\* C18: parse_phase on a system payment without an `amount` argument aborts:
\* it never returns a field list.
C18_AbsentAmountFatal ==
    SystemPaymentShape /\ ARG_AMOUNT \notin DOMAIN deploy_item.args =>
        ppc # "done"

\* a system payment without `amount` returned with its other argument shown
\* and no fee field
C18_FeeLeftOut ==
    /\ SystemPaymentShape
    /\ DOMAIN deploy_item.args = {ARG_ID}
    /\ ppc = "done"
    /\ Len(elements) = 2
    /\ elements[1].value = ARG_ID
    /\ <<"F", "e", "e">> \notin NamesOf(elements)

\* the operation an item is classified as, if any
IsOp(op) ==
    Signal(deploy_item, op) /\ Required(op) \subseteq DOMAIN deploy_item.args

\* the number of deploy-type fields of an item outside the system-payment
\* shape: kind label, hash / address / name and, for versioned kinds, version
TypeFieldCount ==
    IF deploy_item.kind \in
         {"StoredVersionedContractByHash", "StoredVersionedContractByName"}
    THEN 3 ELSE 2

\* the argument fields of each operation: argument name and label shown
AuctionOrder(op) ==
    IF op = REDELEGATE_ENTRYPOINT
    THEN << [key |-> DELEGATOR_ARG_KEY,     name |-> <<"D", "e", "l", "e", "g", "a", "t", "o", "r">>],
            [key |-> VALIDATOR_ARG_KEY,     name |-> <<"O", "l", "d">>],
            [key |-> NEW_VALIDATOR_ARG_KEY, name |-> <<"N", "e", "w">>],
            [key |-> ARG_AMOUNT,            name |-> <<"A", "m", "o", "u", "n", "t">>] >>
    ELSE << [key |-> DELEGATOR_ARG_KEY, name |-> <<"D", "e", "l", "e", "g", "a", "t", "o", "r">>],
            [key |-> VALIDATOR_ARG_KEY, name |-> <<"V", "a", "l", "i", "d", "a", "t", "o", "r">>],
            [key |-> ARG_AMOUNT,        name |-> <<"A", "m", "o", "u", "n", "t">>] >>

\* C19: the fields returned for an item classified as delegate or undelegate
\* end with Delegator, Validator, Amount and those of a redelegate with
\* Delegator, old validator, new validator, Amount, in that order; before them
\* come the deploy-type fields (kind label, address or name, version for the
\* versioned kinds), every one of them Expert.
C19_AuctionFields ==
    \A op \in {DELEGATE_ENTRYPOINT, UNDELEGATE_ENTRYPOINT, REDELEGATE_ENTRYPOINT} :
        IsOp(op) /\ ppc = "done" =>
            LET order == AuctionOrder(op)
                t == TypeFieldCount
            IN  /\ Len(elements) = t + Len(order)
                /\ \A i \in 1..Len(order) :
                     /\ elements[t + i].name = order[i].name
                     /\ elements[t + i].value =
                          ShownValue(deploy_item.args, order[i].key)
                /\ \A i \in 1..t : elements[i].expert
                /\ elements[2].value \in
                     {deploy_item.hash, deploy_item.name, HashText(deploy_item.module_bytes)}
                /\ t = 3 =>
                     /\ elements[3].name = <<"V", "e", "r", "s", "i", "o", "n">>
                     /\ elements[3].value =
                          (IF deploy_item.version.some THEN <<"1", "2">>
                           ELSE <<"l", "a", "t", "e", "s", "t">>)

\* a redelegation through a versioned stored contract
C19_Witness ==
    /\ deploy_item.kind = "StoredVersionedContractByHash"
    /\ deploy_item.version.some
    /\ IsOp(REDELEGATE_ENTRYPOINT)
    /\ ppc = "done"
    /\ Len(elements) = 7
    /\ elements[5].name = <<"O", "l", "d">>

\* a contract-reference execution: a stored kind not classified as an
\* auction operation, returned by parse_phase
ContractReference ==
    /\ deploy_item.kind \in StoredKinds
    /\ \A op \in {DELEGATE_ENTRYPOINT, UNDELEGATE_ENTRYPOINT, REDELEGATE_ENTRYPOINT} :
           ~IsOp(op)
    /\ ppc = "done"

Versioned == TypeFieldCount = 3

IdentifierField ==
    IF deploy_item.kind \in {"StoredContractByHash", "StoredVersionedContractByHash"}
    THEN [name |-> <<"A", "d", "d", "r", "e", "s", "s">>, value |-> deploy_item.hash, expert |-> FALSE]
    ELSE [name |-> <<"N", "a", "m", "e">>, value |-> deploy_item.name, expert |-> FALSE]

EntryPointField ==
    [name |-> <<"E", "n", "t", "r", "y", "-", "p", "o", "i", "n", "t">>, value |-> deploy_item.entry_point, expert |-> TRUE]

VersionField ==
    [name |-> <<"V", "e", "r", "s", "i", "o", "n">>,
     value |-> IF deploy_item.version.some THEN <<"1", "2">> ELSE <<"l", "a", "t", "e", "s", "t">>,
     expert |-> TRUE]

\* C20 as stated: after the kind label come the identifier, the entry point
\* (Expert), for versioned kinds the version (Expert, "latest" when none),
\* and then all named arguments as paired Expert fields.
C20_EntryPointThenVersion ==
    ContractReference =>
        /\ Len(elements) >= 3
        /\ elements[2] = IdentifierField
        /\ elements[3] = EntryPointField
        /\ Versioned => Len(elements) >= 4 /\ elements[4] = VersionField
        /\ PairedFrom(elements, IF Versioned THEN 5 ELSE 4,
                      SortedKeys(DOMAIN deploy_item.args), 0)

\* C20: for a stored kind not classified as an auction operation parse_phase
\* returns the kind label of the phase (Regular), the address / name
\* (Regular), for versioned kinds the version (Expert, "latest" when none),
\* then the entry point (Expert), then Amount (Regular) when `amount` is
\* among the arguments, then the arguments other than `amount` as paired
\* Expert fields.
C20_VersionThenEntryPoint ==
    ContractReference =>
        LET v == IF Versioned THEN 1 ELSE 0
            a == IF ARG_AMOUNT \in DOMAIN deploy_item.args THEN 1 ELSE 0
        IN  /\ Len(elements) >= 3 + v + a
            /\ elements[1].name =
                 (IF txn_phase = "Payment" THEN <<"P", "a", "y", "m", "e", "n", "t">>
                  ELSE <<"E", "x", "e", "c", "u", "t", "i", "o", "n">>)
            /\ ~elements[1].expert
            /\ elements[2] = IdentifierField
            /\ Versioned => elements[3] = VersionField
            /\ elements[3 + v] = EntryPointField
            /\ a = 1 =>
                 elements[4 + v] = [name |-> <<"A", "m", "o", "u", "n", "t">>,
                                    value |-> <<"1", " ", "2", "3", "4", " ", "5", "6", "7", " ", "m", "o", "t", "e", "s">>,
                                    expert |-> FALSE]
            /\ PairedFrom(elements, 4 + v + a,
                          SortedKeys(DOMAIN deploy_item.args \ {ARG_AMOUNT}), 0)

\* a versioned call without a version, with `amount` and two other arguments
C20_Witness ==
    /\ ContractReference
    /\ deploy_item.kind = "StoredVersionedContractByName"
    /\ ~deploy_item.version.some
    /\ DOMAIN deploy_item.args = {ARG_AMOUNT, ARG_ID, VALIDATOR_ARG_KEY}
    /\ Len(elements) = 9

(***************************************************************************)
(* Fatal failures of from_deploy (SpecView).                               *)
(***************************************************************************)
LongLabel(e) == Len(e.name) > 11

\* C22: when the label of any element of the ledger, Regular or Expert,
\* exceeds 11 characters, from_deploy never gets past from_ledger: no page
\* view is kept and neither line list is produced, fully or partially; and
\* whenever from_deploy has aborted, both line lists are empty.
C22_NoPartialRecord ==
    /\ (\E i \in 1..Len(ledger) : LongLabel(ledger[i])) /\ vpc # "idle" =>
          /\ vpc \in {"start", "panic"}
          /\ pages = <<>> /\ output = <<>> /\ output_expert = <<>>
    /\ vpc = "panic" => pages = <<>> /\ output = <<>> /\ output_expert = <<>>

\* from_deploy aborted on an Expert field that follows a well-formed
\* Regular field with a value
C22_Witness ==
    /\ vpc = "panic"
    /\ Len(ledger) = 2
    /\ ~ledger[1].expert /\ ~LongLabel(ledger[1]) /\ ledger[1].value # <<>>
    /\ ledger[2].expert /\ LongLabel(ledger[2])
    /\ output = <<>> /\ output_expert = <<>>

(***************************************************************************)
(* Properties of a deploy rendered by main (SpecMain).                     *)
(***************************************************************************)
ApprovalsLabel == <<"A", "p", "p", "r", "o", "v", "a", "l", "s", " ", "#">>

\* the text sub occurs in the line
Contains(line, sub) ==
    \E i \in 1..(Len(line) - Len(sub) + 1) :
        SubSeq(line, i, i + Len(sub) - 1) = sub

GenericDone ==
    /\ ppc = "done"
    /\ ~IsDelegate(deploy_item) /\ ~IsUndelegate(deploy_item) /\ ~IsRedelegate(deploy_item)

\* the names parse_phase removes before it calls parse_runtime_args
ReservedNames ==
    IF deploy_item.kind = "Transfer"
    THEN {ARG_TO, ARG_SOURCE, ARG_TARGET, ARG_AMOUNT, ARG_ID}
    ELSE {ARG_AMOUNT}

ArgLabel(n, suffix) == <<"A", "r", "g", "-">> \o ToDec(n) \o suffix

IsArgNameField(e) ==
    /\ Len(e.name) > 9
    /\ SubSeq(e.name, 1, 4) = <<"A", "r", "g", "-">>
    /\ SubSeq(e.name, Len(e.name) - 4, Len(e.name)) = <<"-", "n", "a", "m", "e">>

\* the last elements of the generic branch are the pairs of the arguments
\* that are not reserved
ArgumentPairs ==
    GenericDone =>
        LET names == SortedKeys(DOMAIN deploy_item.args \ ReservedNames)
            n == Len(names)
            first == Len(elements) - 2 * n IN
        /\ first >= 0
        /\ \A k \in 1..n :
              /\ elements[first + 2 * k - 1] =
                    [name |-> ArgLabel(k - 1, <<"-", "n", "a", "m", "e">>),
                     value |-> names[k], expert |-> TRUE]
              /\ elements[first + 2 * k] =
                    [name |-> ArgLabel(k - 1, <<"-", "v", "a", "l">>),
                     value |-> ClValueToString(deploy_item.args[names[k]]),
                     expert |-> TRUE]
              /\ k < n => StrLess(names[k], names[k + 1])
        /\ \A i \in 1..first : ~IsArgNameField(elements[i])
        /\ \A i \in 1..Len(elements) :
              IsArgNameField(elements[i]) => elements[i].value \notin ReservedNames

\* C26: when parse_phase has taken its generic branch, its last elements are
\* the pairs Arg-N-name (the name) and Arg-N-val (the rendered value), both
\* Expert, one pair for each argument that is not reserved, in the sorted
\* order of the names, N counting 0, 1, 2, ... without gaps; no field before
\* them is such a pair; no Arg-N-name field holds a reserved name; and no
\* step of parse_phase changes the item it was handed.
C26_ArgumentPairs ==
    /\ []ArgumentPairs
    /\ [][deploy_item' = deploy_item]_vars

\* a transfer with all of to, source, target, amount, id and `auction`: the
\* only pair is that of `auction`, numbered 0
C26_Witness ==
    /\ GenericDone
    /\ deploy_item.kind = "Transfer"
    /\ DOMAIN deploy_item.args =
          {ARG_TO, ARG_SOURCE, ARG_TARGET, ARG_AMOUNT, ARG_ID, AUCTION_ARG_KEY}
    /\ elements[Len(elements) - 1].name = ArgLabel(0, <<"-", "n", "a", "m", "e">>)
    /\ elements[Len(elements) - 1].value = AUCTION_ARG_KEY
    /\ \A i \in 1..(Len(elements) - 2) : ~IsArgNameField(elements[i])

(***************************************************************************)
(* The three auction predicates (SpecPhase).                               *)
(***************************************************************************)
\* the predicates that hold of the item
AuctionPredicates ==
    { p \in {"delegate", "undelegate", "redelegate"} :
        \/ p = "delegate" /\ IsDelegate(deploy_item)
        \/ p = "undelegate" /\ IsUndelegate(deploy_item)
        \/ p = "redelegate" /\ IsRedelegate(deploy_item) }

\* C28: of every item whose `auction` argument can be read, at most one of
\* is_delegate, is_undelegate and is_redelegate holds, and the branch
\* parse_phase has chosen is that of the predicate that holds, the last
\* branch when none does: testing them in another order chooses the same.
C28_AtMostOnePredicate ==
    ppc \notin {"idle", "panic"} /\ ~GetAuctionArg(deploy_item).panic =>
        /\ Cardinality(AuctionPredicates) <= 1
        /\ ppc \in {"delegate", "undelegate", "redelegate"} => AuctionPredicates = {ppc}
        /\ ppc = "else" => AuctionPredicates = {}

\* an item with the arguments of all three operations, of which only
\* is_redelegate holds, has been sent to parse_redelegation
C28_Witness ==
    /\ ppc = "redelegate"
    /\ HasDelegateArgs(deploy_item) /\ HasUndelegateArg(deploy_item)
    /\ HasRedelegateArg(deploy_item)
    /\ AuctionPredicates = {"redelegate"}

\* the labels of the fields an auction operation shows for its arguments
AuctionLabels ==
    { <<"D", "e", "l", "e", "g", "a", "t", "o", "r">>, <<"V", "a", "l", "i", "d", "a", "t", "o", "r">>, <<"O", "l", "d">>, <<"N", "e", "w">>, <<"A", "m", "o", "u", "n", "t">> }

\* the texts an argument could be shown by: its name and its rendered value
ArgTexts(key) == {key, ClValueToString(deploy_item.args[key])}

\* C29: when parse_phase has returned for an item of which is_delegate,
\* is_undelegate or is_redelegate holds, the elements after those of
\* deploy_type are labelled Delegator, Validator, Old, New or Amount, one at
\* most of each; no element is an Arg-N-name or Arg-N-val pair or the
\* entry-point field; and neither the name nor the value of any argument
\* other than delegator, validator, new_validator and amount (`auction`
\* included), nor the entry point, is the value of any element.
C29_OnlyAuctionArguments ==
    ppc = "done" /\ AuctionPredicates # {} =>
        LET t == Len(DeployType("Session", deploy_item))
            extras == DOMAIN deploy_item.args \ CoreNames IN
        /\ Len(elements) >= t
        /\ \A i \in (t + 1)..Len(elements) : elements[i].name \in AuctionLabels
        /\ \A i, j \in (t + 1)..Len(elements) :
              elements[i].name = elements[j].name => i = j
        /\ \A i \in 1..Len(elements) :
              /\ ~(Len(elements[i].name) >= 4
                     /\ SubSeq(elements[i].name, 1, 4) = <<"A", "r", "g", "-">>)
              /\ elements[i].name # EntrypointElement(<<>>).name
              /\ \A key \in extras : elements[i].value \notin ArgTexts(key)
              /\ deploy_item.entry_point # <<>> =>
                    elements[i].value # deploy_item.entry_point

\* a delegation through ModuleBytes that carries `auction` and one more
\* argument has been rendered with its three fields only
C29_Witness ==
    /\ ppc = "done"
    /\ AuctionPredicates = {"delegate"}
    /\ deploy_item.kind = "ModuleBytes"
    /\ DOMAIN deploy_item.args =
          {DELEGATOR_ARG_KEY, VALIDATOR_ARG_KEY, ARG_AMOUNT, AUCTION_ARG_KEY, ARG_ID}
    /\ Len(elements) = Len(DeployType("Session", deploy_item)) + 3

(***************************************************************************)
(* format_amount, as parse_motes applies it (SpecAmount).                  *)
(***************************************************************************)
MotesSuffix == <<" ", "m", "o", "t", "e", "s">>

\* the Fee and Amount fields parse_motes made for an item that is not a
\* native transfer
MotesFields ==
    IF deploy_item.kind = "Transfer" THEN {}
    ELSE { i \in 1..Len(elements) :
             elements[i].name \in {<<"F", "e", "e">>, <<"A", "m", "o", "u", "n", "t">>} }

\* the text before " motes"
GroupedPart(text) == SubSeq(text, 1, Len(text) - Len(MotesSuffix))

\* counted from the right, every fourth character is a space and every other
\* one a digit, and the text does not begin with a space
GroupedInThrees(g) ==
    /\ g # <<>>
    /\ g[1] # " "
    /\ \A i \in 1..Len(g) :
          IF (Len(g) - i) % 4 = 3 THEN g[i] = " "
          ELSE \E d \in 1..10 : g[i] = Digits[d]

\* C23: every Fee or Amount field parse_motes makes holds the decimal digits
\* of the amount grouped in threes from the right, groups separated by one
\* space, followed by " motes"; without the spaces it is the plain number;
\* an amount below 1000 has no space; 1, 1000, 10000 and the digits of
\* 10000000000 give the texts of the test amount_space_separated.
C23_GroupedAmount ==
    /\ ppc = "done" => Cardinality(MotesFields) = 1
    /\ ppc = "done" =>
          \A i \in MotesFields :
            LET text == elements[i].value
                n == deploy_item.args[ARG_AMOUNT].num
                g == GroupedPart(text) IN
            /\ ~elements[i].expert
            /\ Len(text) > Len(MotesSuffix)
            /\ SubSeq(text, Len(g) + 1, Len(text)) = MotesSuffix
            /\ GroupedInThrees(g)
            /\ SelectSeq(g, LAMBDA c : c # " ") = ToDec(n)
            /\ n < 1000 => g = ToDec(n)
            /\ n = 1 => text = <<"1", " ", "m", "o", "t", "e", "s">>
            /\ n = 1000 => text = <<"1", " ", "0", "0", "0", " ", "m", "o", "t", "e", "s">>
            /\ n = 10000 => text = <<"1", "0", " ", "0", "0", "0", " ", "m", "o", "t", "e", "s">>
    /\ SeparateWithSpaces(<<"1", "0", "0", "0", "0", "0", "0", "0", "0", "0", "0">>) \o MotesSuffix
          = <<"1", "0", " ", "0", "0", "0", " ", "0", "0", "0", " ", "0", "0", "0", " ", "m", "o", "t", "e", "s">>

\* the fee of a system payment of 2147483647 motes has been rendered
C23_Witness ==
    /\ ppc = "done"
    /\ txn_phase = "Payment"
    /\ IsSystemPayment(txn_phase, deploy_item.module_bytes)
    /\ deploy_item.args[ARG_AMOUNT].num = 2147483647
    /\ \E i \in MotesFields :
          /\ elements[i].name = <<"F", "e", "e">>
          /\ elements[i].value = <<"2", " ", "1", "4", "7", " ", "4", "8", "3", " ", "6", "4", "7", " ", "m", "o", "t", "e", "s">>

\* from_deploy returns a record for the deploy: no parse_phase panics and
\* from_element accepts every element
Renders(d) ==
    LET into == IntoElements(d) IN
    /\ ~into.panic
    /\ \A i \in 1..Len(into.elements) : FromElement(into.elements[i]).panic = "none"

ArgNumber(name) == DecValue(SubSeq(name, 5, Len(name) - 5))

\* the arguments of the session parse_runtime_args is given, in order
LeftoverNames(d) == SortedKeys(DOMAIN d.session.args \ {ARG_AMOUNT})

\* C30: in the ledger of every deploy from_deploy works on, a label that is
\* not Arg-N-name or Arg-N-val has at most 11 characters, and a label
\* Arg-N-name has at most 11 characters exactly when N <= 99.  When the
\* session is a contract call with 101 or more arguments left over, the first
\* label of the ledger that is too long is that of the argument at position
\* 100 in sorted order, from_deploy makes no page view and no line, and no
\* record of the deploy is ever printed.
C30_LabelLengths ==
    /\ mpc = "from_deploy" =>
          \A i \in 1..Len(ledger) :
            IF IsArgNameField(ledger[i])
            THEN Len(ledger[i].name) <= LEDGER_VIEW_NAME_COUNT
                    <=> ArgNumber(ledger[i].name) <= 99
            ELSE Len(ledger[i].name) <= LEDGER_VIEW_NAME_COUNT
    /\ mpc \in {"from_deploy", "panic"} /\ id < Len(deploys)
          /\ deploys[id + 1].session.kind = "StoredContractByName"
          /\ Len(LeftoverNames(deploys[id + 1])) >= 101 =>
            LET long == { i \in 1..Len(ledger) : NameTooLong(ledger[i]) }
                first == CHOOSE i \in long : \A j \in long : i <= j IN
            /\ long # {}
            /\ IsArgNameField(ledger[first])
            /\ ArgNumber(ledger[first].name) = 100
            /\ ledger[first].value = LeftoverNames(deploys[id + 1])[101]
            /\ vpc \in {"start", "panic"}
            /\ pages = <<>> /\ output = <<>> /\ output_expert = <<>>
            /\ \A j \in 1..Len(printed) : printed[j].index # id

\* main has ended on the panic of from_element for a deploy whose session has
\* MaxArgs arguments; nothing was printed
C30_Witness ==
    /\ mpc = "panic"
    /\ vpc = "panic"
    /\ id = 0
    /\ Cardinality(DOMAIN deploys[1].session.args) = MaxArgs
    /\ \E i \in 1..Len(ledger) :
          /\ ledger[i].name = ArgLabel(100, <<"-", "n", "a", "m", "e">>)
          /\ Len(ledger[i].name) = 12
    /\ printed = <<>>

(***************************************************************************)
(* Properties of the sample generators (SpecSample).                       *)
(***************************************************************************)
RedelegateNames ==
    {ARG_AMOUNT, DELEGATOR_ARG_KEY, VALIDATOR_ARG_KEY, NEW_VALIDATOR_ARG_KEY}

\* the kinds valid pushes in each iteration, in order
ValidKinds ==
    <<"StoredContractByHash", "StoredContractByName",
      "StoredVersionedContractByHash", "StoredVersionedContractByName",
      "ModuleBytes">>

\* C24: every item valid has pushed for the entry point redelegate (the four
\* stored variants and then the ModuleBytes variant of each argument map)
\* carries amount, delegator, validator and new_validator; the ModuleBytes
\* variant carries in addition `auction` = "redelegate", the stored ones
\* carry nothing else; all are flagged valid; and when valid returns there
\* are five items for each argument map.
C24_RedelegateArgs ==
    gpc # "idle" /\ valid_entrypoint = REDELEGATE_ENTRYPOINT =>
        /\ \A i \in 1..Len(valid_output) :
              LET item == valid_output[i].sample
                  k == ((i - 1) % 5) + 1 IN
              /\ item.kind = ValidKinds[k]
              /\ RedelegateNames \subseteq DOMAIN item.args
              /\ DOMAIN item.args =
                    (IF k = 5 THEN RedelegateNames \cup {AUCTION_ARG_KEY}
                     ELSE RedelegateNames)
              /\ k = 5 => item.args[AUCTION_ARG_KEY] = ClString(REDELEGATE_ENTRYPOINT)
              /\ k # 5 => item.entry_point = REDELEGATE_ENTRYPOINT
              /\ item.args[ARG_AMOUNT] = ra[((i - 1) \div 5) + 1][ARG_AMOUNT]
              /\ valid_output[i].valid
        /\ gpc = "done" => Len(valid_output) = 5 * Len(ra)

\* valid has returned the fifteen items of the three sample redelegations
C24_Witness ==
    /\ gpc = "done"
    /\ valid_entrypoint = REDELEGATE_ENTRYPOINT
    /\ ra = SampleArgs(REDELEGATE_ENTRYPOINT)
    /\ Len(valid_output) = 15
    /\ valid_output[15].sample.kind = "ModuleBytes"
    /\ NEW_VALIDATOR_ARG_KEY \in DOMAIN valid_output[15].sample.args

\* the session and the payment sample the k-th collected sample was made of
SessionOf(k) == session_samples[((k - 1) \div Len(payment_samples)) + 1]
PaymentOf(k) == payment_samples[((k - 1) % Len(payment_samples)) + 1]

\* C27: every sample construct_samples has collected is flagged valid
\* exactly when its session sample and its payment sample both are,
\* whatever the number of keys it was signed with.
C27_ValidIffBoth ==
    \A k \in 1..Len(samples) :
        samples[k].valid <=> (SessionOf(k).valid /\ PaymentOf(k).valid)

\* a sample signed with the main key only, made of a valid session and an
\* invalid payment, has been collected flagged valid
C27_SingleKeyValid ==
    \E k \in 1..Len(samples) :
        /\ samples[k].sample.approvals = 1
        /\ SessionOf(k).valid
        /\ ~PaymentOf(k).valid
        /\ samples[k].valid

(***************************************************************************)
(* Specifications.  Each runs one part of the pipeline and leaves the      *)
(* variables of the other parts at rest.                                   *)
(***************************************************************************)
PageIdle ==
    /\ element = [name |-> <<>>, value |-> <<>>, expert |-> FALSE]
    /\ pc = "idle" /\ pos = 0 /\ values = <<>> /\ curr_value = DefaultValue
    /\ page_view = NoView /\ lines = <<>>

ViewIdle ==
    /\ ledger = <<>> /\ vpc = "idle" /\ pages = <<>>
    /\ output = <<>> /\ output_expert = <<>>

HexIdle ==
    /\ input = <<>> /\ digest = <<>> /\ hpc = "idle"
    /\ nibbleIdx = 0 /\ bitIdx = 0 /\ out = <<>>

PhaseIdle ==
    /\ deploy_item = NoItem /\ txn_phase = "Session"
    /\ ppc = "idle" /\ elements = <<>>

MainIdle ==
    /\ deploys = <<>> /\ id = 0 /\ mpc = "idle" /\ printed = <<>>

ValidIdle ==
    /\ valid_entrypoint = <<>> /\ ra = <<>> /\ ra_idx = 0
    /\ valid_output = <<>> /\ gpc = "idle"

ConstructIdle ==
    /\ session_samples = <<>> /\ payment_samples = <<>>
    /\ session_idx = 0 /\ payment_idx = 0
    /\ sample_session = NoSample /\ secondary_keys = 0
    /\ samples = <<>> /\ cpc = "idle"

SampleIdle == ValidIdle /\ ConstructIdle

\* from_element and LedgerPageView::to_string on one field
Init == PageInit /\ ViewIdle /\ HexIdle /\ PhaseIdle /\ MainIdle /\ SampleIdle
Next == FromElementStart \/ FromElementChar \/ FromElementEnd \/ PageToString
Spec == Init /\ [][Next]_vars

\* from_element and to_string are sequential code: a call that has started
\* runs on until it returns or panics
FairSpec == Spec /\ WF_vars(Next)

\* from_deploy on one ledger
ViewInitAll == PageIdle /\ ViewInit /\ HexIdle /\ PhaseIdle /\ MainIdle /\ SampleIdle
ViewNext == FromLedger \/ ToStringRegular \/ ToStringExpert
SpecView == ViewInitAll /\ [][ViewNext]_vars

\* checksummed_hex::encode on one byte string
HexInitAll == PageIdle /\ ViewIdle /\ HexInit /\ PhaseIdle /\ MainIdle /\ SampleIdle
HexNext == EncodeStart \/ EncodeNibble \/ EncodeCollect
SpecHex == HexInitAll /\ [][HexNext]_vars

\* parse_phase on one executable item
PhaseInitAll == PageIdle /\ ViewIdle /\ HexIdle /\ PhaseInit /\ MainIdle /\ SampleIdle
PhaseNext ==
    \/ ParsePhaseClassify
    \/ ParseDelegation \/ ParseUndelegation \/ ParseRedelegation
    \/ ParsePhaseElse
SpecPhase == PhaseInitAll /\ [][PhaseNext]_vars

AmountInitAll == PageIdle /\ ViewIdle /\ HexIdle /\ AmountInit /\ MainIdle /\ SampleIdle
SpecAmount == AmountInitAll /\ [][PhaseNext]_vars

\* main over a batch of deploys
MainInitAll == PageIdle /\ ViewIdle /\ HexIdle /\ PhaseIdle /\ MainInit /\ SampleIdle
MainNext ==
    \/ MainLedger
    \/ FromLedger \/ ToStringRegular \/ ToStringExpert
    \/ MainPrint \/ MainPanic
    \/ MainReturn
SpecMain == MainInitAll /\ [][MainNext]_vars

\* main is sequential code: the loop runs on until it returns or panics
FairSpecMain == SpecMain /\ WF_vars(MainNext)

\* the generators of the samples: auction::commons::valid on one list of
\* arguments, or construct_samples on one list of sessions and of payments
SampleInitAll ==
    /\ PageIdle /\ ViewIdle /\ HexIdle /\ PhaseIdle /\ MainIdle
    /\ \/ ValidInit /\ ConstructIdle
       \/ ValidIdle /\ ConstructInit
SampleNext ==
    \/ ValidPushExecutables \/ ValidPushModuleBytes \/ ValidReturn
    \/ MakeDeploySample \/ SignSecondary \/ PushSample \/ ConstructReturn
SpecSample == SampleInitAll /\ [][SampleNext]_vars

====
